---- MODULE Spec2Model ----
(***************************************************************************)
(* Model of the N3310Lib display driver (n3310.c): the framebuffer cache,  *)
(* its dirty-range watermarks, the text cursor, the pixel primitive, the   *)
(* filled bar, the font engine and the cache flush.                        *)
(*                                                                         *)
(* Every public function of the driver is one action.  The driver's five   *)
(* static variables are carried through the body of a function as one      *)
(* record (the "machine state" m), so that the statements of the function  *)
(* can be applied in program order.                                        *)
(***************************************************************************)
EXTENDS Integers, Sequences, FiniteSets, TLC

(***************************************************************************)
(* Program constants                                                       *)
(***************************************************************************)
LCD_X_RES == 84
LCD_Y_RES == 48
LCD_CACHE_SIZE == 504

\* Number of top-level driver calls explored in one behaviour.
MaxOps == 3
\* Bound on the number of calls explored when lines, circles and rectangles
\* are drawn.
MaxDraws == 2

Byte == 0..255

(***************************************************************************)
(* Fixed-width integer arithmetic                                          *)
(***************************************************************************)
\* Value of a byte expression after the store into a `byte` variable.
ToByte(v) == v % 256

\* Value of an expression after the store into a 16-bit signed `int` (AVR).
ToInt(v) == LET u == v % 65536 IN IF u >= 32768 THEN u - 65536 ELSE u

\* C remainder: the sign of the result is the sign of the dividend.
Rem(a, b) == IF a >= 0 THEN a % b ELSE -((-a) % b)

Pow2(k) == 2 ^ k

Bit(v, k) == (v \div Pow2(k)) % 2

\* Bitwise operators on bytes, bit by bit.
And8(a, b) ==
  LET f[k \in 0..8] == IF k = 8 THEN 0
                       ELSE (IF Bit(a, k) = 1 /\ Bit(b, k) = 1 THEN Pow2(k) ELSE 0) + f[k + 1]
  IN f[0]

Or8(a, b) ==
  LET f[k \in 0..8] == IF k = 8 THEN 0
                       ELSE (IF Bit(a, k) = 1 \/ Bit(b, k) = 1 THEN Pow2(k) ELSE 0) + f[k + 1]
  IN f[0]

Xor8(a, b) ==
  LET f[k \in 0..8] == IF k = 8 THEN 0
                       ELSE (IF Bit(a, k) # Bit(b, k) THEN Pow2(k) ELSE 0) + f[k + 1]
  IN f[0]

\* Low byte of ~v.
Not8(v) == 255 - ToByte(v)

(***************************************************************************)
(* Result codes, pixel modes and font sizes (the enums of n3310.h)         *)
(***************************************************************************)
OK == "OK"
OUT_OF_BORDER == "OUT_OF_BORDER"
OK_WITH_WRAP == "OK_WITH_WRAP"

PIXEL_OFF == "PIXEL_OFF"
PIXEL_ON == "PIXEL_ON"
PIXEL_XOR == "PIXEL_XOR"

FONT_1X == "FONT_1X"
FONT_2X == "FONT_2X"

LCD_CMD == "LCD_CMD"
LCD_DATA == "LCD_DATA"

(***************************************************************************)
(* The glyph table.  Its rows are 5 column bytes of 7 significant bits.    *)
(* Row 33 is the letter 'A'; the other rows are filled with a fixed        *)
(* pattern that uses all seven bits.                                       *)
(***************************************************************************)
FontLookup(ch, i) ==
  IF ch = 33 THEN <<126, 17, 17, 17, 126>>[i + 1]
  ELSE ((ch + 1) * 7 + i * 19) % 128

(***************************************************************************)
(* State                                                                   *)
(***************************************************************************)
VARIABLES
  LcdCache,      \* the framebuffer cache, a function 0..LCD_CACHE_SIZE-1 -> Byte
  LoWaterMark,   \* lower bound of the modified part of the cache
  HiWaterMark,   \* upper bound of the modified part of the cache
  LcdCacheIdx,   \* the text cursor, an index into LcdCache
  UpdateLcd,     \* the "cache changed" flag
  layout,        \* what the linker placed directly behind LcdCache; "unknown"
                 \* until a store past the end of the cache reveals it
  bus,           \* the bytes the last call handed to LcdSend, in order
  last,          \* the last call: its name, arguments and return value
  before,        \* the call before the last one
  written,       \* cache indices stored to since the last LcdUpdate
  touched,       \* cache indices read or stored to by the last call
  cacheBefore,   \* LcdCache as it was when the last call was made
  pixels,        \* the LcdPixel calls the last call made: <<x, y, mode, result>>
  chars,         \* the LcdChr calls the last call made: <<size, ch, result>>
  nops,          \* number of calls made
  ram,           \* the display controller: its RAM, write address and command set
  run            \* the call that has not returned yet: its name, arguments and
                 \* locals; [pc |-> "idle"] between calls

vars == <<LcdCache, LoWaterMark, HiWaterMark, LcdCacheIdx, UpdateLcd, layout,
          bus, last, before, written, touched, cacheBefore, pixels, chars, nops,
          ram, run>>

InCache(i) == i >= 0 /\ i < LCD_CACHE_SIZE

\* What may lie in the four bytes behind LcdCache.  "other": memory that
\* does not belong to the driver.  "watermarks": LoWaterMark and
\* HiWaterMark, in declaration order.  "cursor": LcdCacheIdx and UpdateLcd.
Layouts == {"other", "watermarks", "cursor"}

\* The machine state a function body works on.
Machine ==
  [cache |-> LcdCache, lo |-> LoWaterMark, hi |-> HiWaterMark,
   idx |-> LcdCacheIdx, upd |-> UpdateLcd, written |-> written, touched |-> {},
   pix |-> <<>>, chr |-> <<>>]

\* Byte k (0 = low) of the 16-bit int w replaced by v.
SetByte(w, k, v) ==
  LET u == w % 65536
      l == IF k = 0 THEN v ELSE u % 256
      h == IF k = 1 THEN v ELSE u \div 256
  IN ToInt(h * 256 + l)

\* The effect of a store of v at offset off behind the end of the cache.
Clobber(m, lay, off, v) ==
  CASE lay = "watermarks" /\ off \in {0, 1} -> [m EXCEPT !.lo = SetByte(@, off, v)]
    [] lay = "watermarks" /\ off \in {2, 3} -> [m EXCEPT !.hi = SetByte(@, off - 2, v)]
    [] lay = "cursor" /\ off \in {0, 1} -> [m EXCEPT !.idx = SetByte(@, off, v)]
    [] lay = "cursor" /\ off = 2 -> [m EXCEPT !.upd = (v # 0)]
    [] OTHER -> m

\* LcdCache[i] = v.  A store outside the array is undefined behaviour: it
\* lands on whatever the build placed there.
Store(m, lay, i, v) ==
  LET n == [m EXCEPT !.written = @ \cup {i}, !.touched = @ \cup {i}]
  IN IF InCache(i) THEN [n EXCEPT !.cache[i] = v]
     ELSE Clobber(n, lay, i - LCD_CACHE_SIZE, v)

\* The value of LcdCache[i] in a function that reads it.
Load(m, i) == m.cache[i]

\* The loops of the drawing functions are run as at most MaxPasses passes.
\* A pass is one evaluation of the loop condition followed by the body; it
\* works on a record s of the machine state and the locals of the
\* function, and sets s.done when the loop is left.  No loop counter of the
\* driver is wider than a byte.
MaxPasses == 256

(***************************************************************************)
(* LcdPixel                                                                *)
(***************************************************************************)
\* The byte of the cache that holds pixel (x,y), and the bit in it.
PixelIndex(x, y) == ((y \div 8) * 84) + x
PixelOffset(y) == ToByte(y - ((y \div 8) * 8))

\* Faulty variant of PixelData: PIXEL_OFF masks with the bit instead of its complement.
PixelDataOffKeepsBit(data, offset, mode) ==
  CASE mode = PIXEL_OFF -> And8(data, Pow2(offset))
    [] mode = PIXEL_ON -> Or8(data, Pow2(offset))
    [] mode = PIXEL_XOR -> Xor8(data, Pow2(offset))
    [] OTHER -> data

\* Faulty variant of PixelData: PIXEL_XOR sets the bit instead of inverting it.
PixelDataXorSets(data, offset, mode) ==
  CASE mode = PIXEL_OFF -> And8(data, Not8(Pow2(offset)))
    [] mode = PIXEL_ON -> Or8(data, Pow2(offset))
    [] mode = PIXEL_XOR -> Or8(data, Pow2(offset))
    [] OTHER -> data

\* data after the bit operation of the mode.
PixelData(data, offset, mode) ==
  CASE mode = PIXEL_OFF -> And8(data, Not8(Pow2(offset)))
    [] mode = PIXEL_ON -> Or8(data, Pow2(offset))
    [] mode = PIXEL_XOR -> Xor8(data, Pow2(offset))
    [] OTHER -> data

\* The watermark updates that follow a store at index.
MarkLo(lo, index) == IF index < lo THEN index ELSE lo
MarkHi(hi, index) == IF index > hi THEN index ELSE hi

\* Faulty variant of LcdPixel: the column check lets x = LCD_X_RES through.
LcdPixelLooseCheck(m, x, y, mode) ==
  IF x > LCD_X_RES \/ y >= LCD_Y_RES THEN
    [m |-> [m EXCEPT !.pix = Append(@, <<x, y, mode, OUT_OF_BORDER>>)],
     ret |-> OUT_OF_BORDER]
  ELSE
    LET index == PixelIndex(x, y)
        offset == PixelOffset(y)
        data == PixelData(Load(m, index), offset, mode)
    IN [m |-> [m EXCEPT !.cache[index] = data,
                        !.lo = MarkLo(@, index),
                        !.hi = MarkHi(@, index),
                        !.written = @ \cup {index},
                        !.touched = @ \cup {index},
                        !.pix = Append(@, <<x, y, mode, OK>>)],
        ret |-> OK]

LcdPixel(m, x, y, mode) ==
  IF x >= LCD_X_RES \/ y >= LCD_Y_RES THEN
    [m |-> [m EXCEPT !.pix = Append(@, <<x, y, mode, OUT_OF_BORDER>>)],
     ret |-> OUT_OF_BORDER]
  ELSE
    LET index == PixelIndex(x, y)
        offset == PixelOffset(y)
        data == PixelData(Load(m, index), offset, mode)
    IN [m |-> [m EXCEPT !.cache[index] = data,
                        !.lo = MarkLo(@, index),
                        !.hi = MarkHi(@, index),
                        !.written = @ \cup {index},
                        !.touched = @ \cup {index},
                        !.pix = Append(@, <<x, y, mode, OK>>)],
        ret |-> OK]

(***************************************************************************)
(* LcdLine                                                                 *)
(***************************************************************************)
\* Faulty variant of LineXPass: the step along y needs fraction > 0.
LineXPassLateStep(s) ==
  IF s.x1 = s.x2 THEN [s EXCEPT !.done = TRUE]
  ELSE LET up == s.fraction > 0
           y == IF up THEN ToByte(s.y1 + s.stepy) ELSE s.y1
           f == IF up THEN s.fraction - s.dx ELSE s.fraction
           x == ToByte(s.x1 + s.stepx)
           r == LcdPixel(s.m, x, y, s.mode)
       IN [s EXCEPT !.m = r.m, !.x1 = x, !.y1 = y, !.fraction = f + s.dy,
                    !.response = r.ret, !.done = (r.ret # OK)]

\* One pass of the loop of the branch dx > dy: a step along x.  x1 and y1
\* are bytes; dx, dy and fraction are ints that stay within -1020..1020.
LineXPass(s) ==
  IF s.x1 = s.x2 THEN [s EXCEPT !.done = TRUE]
  ELSE LET up == s.fraction >= 0
           y == IF up THEN ToByte(s.y1 + s.stepy) ELSE s.y1
           f == IF up THEN s.fraction - s.dx ELSE s.fraction
           x == ToByte(s.x1 + s.stepx)
           r == LcdPixel(s.m, x, y, s.mode)
       IN [s EXCEPT !.m = r.m, !.x1 = x, !.y1 = y, !.fraction = f + s.dy,
                    !.response = r.ret, !.done = (r.ret # OK)]

\* One pass of the loop of the other branch: a step along y.
LineYPass(s) ==
  IF s.y1 = s.y2 THEN [s EXCEPT !.done = TRUE]
  ELSE LET up == s.fraction >= 0
           x == IF up THEN ToByte(s.x1 + s.stepx) ELSE s.x1
           f == IF up THEN s.fraction - s.dy ELSE s.fraction
           y == ToByte(s.y1 + s.stepy)
           r == LcdPixel(s.m, x, y, s.mode)
       IN [s EXCEPT !.m = r.m, !.x1 = x, !.y1 = y, !.fraction = f + s.dx,
                    !.response = r.ret, !.done = (r.ret # OK)]

\* The loop while ( x1 != x2 ): up to n passes.
RECURSIVE LineXLoop(_, _)
LineXLoop(s, n) ==
  IF s.done \/ n = 0 THEN s
  ELSE IF n = 1 THEN LineXPass(s)
  ELSE LineXLoop(LineXLoop(s, n \div 2), n - (n \div 2))

\* The loop while ( y1 != y2 ): up to n passes.
RECURSIVE LineYLoop(_, _)
LineYLoop(s, n) ==
  IF s.done \/ n = 0 THEN s
  ELSE IF n = 1 THEN LineYPass(s)
  ELSE LineYLoop(LineYLoop(s, n \div 2), n - (n \div 2))

\* Everything after the first LcdPixel call of LcdLine.
LineRest(m, x1, y1, x2, y2, mode) ==
  LET stepy == IF y2 - y1 < 0 THEN -1 ELSE 1
      stepx == IF x2 - x1 < 0 THEN -1 ELSE 1
      dy == 2 * (IF y2 - y1 < 0 THEN -(y2 - y1) ELSE y2 - y1)
      dx == 2 * (IF x2 - x1 < 0 THEN -(x2 - x1) ELSE x2 - x1)
      s == [m |-> m, x1 |-> x1, y1 |-> y1, x2 |-> x2, y2 |-> y2,
            stepx |-> stepx, stepy |-> stepy, dx |-> dx, dy |-> dy,
            fraction |-> IF dx > dy THEN dy - (dx \div 2) ELSE dx - (dy \div 2),
            mode |-> mode, response |-> OK, done |-> FALSE]
      w == IF dx > dy THEN LineXLoop(s, MaxPasses) ELSE LineYLoop(s, MaxPasses)
  IN IF w.response # OK THEN [m |-> w.m, ret |-> w.response]
     ELSE [m |-> [w.m EXCEPT !.upd = TRUE], ret |-> OK]

\* Faulty variant of LcdLine: the pixel at (x1,y1) is not drawn.
LcdLineSkipsStart(m, x1, y1, x2, y2, mode) ==
  LineRest(m, x1, y1, x2, y2, mode)

LcdLine(m, x1, y1, x2, y2, mode) ==
  LET r == LcdPixel(m, x1, y1, mode)
  IN IF r.ret # OK THEN r
     ELSE LineRest(r.m, x1, y1, x2, y2, mode)

(***************************************************************************)
(* LcdCircle                                                               *)
(***************************************************************************)
\* The value of v in a signed char.
SChar(v) == LET u == v % 256 IN IF u >= 128 THEN u - 256 ELSE u

\* The eight LcdPixel calls of one pass of the loop; their results are
\* dropped.  The coordinates are ints converted to the byte parameters.
CirclePoints(m, x, y, xc, yc, mode) ==
  LET p1 == LcdPixel(m, ToByte(x + xc), ToByte(y + yc), mode).m
      p2 == LcdPixel(p1, ToByte(x + xc), ToByte(y - yc), mode).m
      p3 == LcdPixel(p2, ToByte(x - xc), ToByte(y + yc), mode).m
      p4 == LcdPixel(p3, ToByte(x - xc), ToByte(y - yc), mode).m
      p5 == LcdPixel(p4, ToByte(x + yc), ToByte(y + xc), mode).m
      p6 == LcdPixel(p5, ToByte(x + yc), ToByte(y - xc), mode).m
      p7 == LcdPixel(p6, ToByte(x - yc), ToByte(y + xc), mode).m
  IN LcdPixel(p7, ToByte(x - yc), ToByte(y - xc), mode).m

\* Faulty variant of CirclePass: the loop runs while xc < yc.
CirclePassStrict(s) ==
  IF ~(s.xc < s.yc) THEN [s EXCEPT !.done = TRUE]
  ELSE LET d == CirclePoints(s.m, s.x, s.y, s.xc, s.yc, s.mode)
       IN IF s.p < 0
          THEN [s EXCEPT !.m = d, !.xc = SChar(s.xc + 1),
                         !.p = SChar(s.p + (s.xc * 4) + 6)]
          ELSE [s EXCEPT !.m = d, !.xc = SChar(s.xc + 1), !.yc = SChar(s.yc - 1),
                         !.p = SChar(s.p + ((s.xc - s.yc) * 4) + 10)]

\* One pass of the while loop of LcdCircle.  xc, yc and p are signed
\* chars; the shifts are done on ints (a left shift by 2 is a
\* multiplication by 4, also for the negative xc - yc, as the compiler of
\* the AVR build defines it).
CirclePass(s) ==
  IF ~(s.xc <= s.yc) THEN [s EXCEPT !.done = TRUE]
  ELSE LET d == CirclePoints(s.m, s.x, s.y, s.xc, s.yc, s.mode)
       IN IF s.p < 0
          THEN [s EXCEPT !.m = d, !.xc = SChar(s.xc + 1),
                         !.p = SChar(s.p + (s.xc * 4) + 6)]
          ELSE [s EXCEPT !.m = d, !.xc = SChar(s.xc + 1), !.yc = SChar(s.yc - 1),
                         !.p = SChar(s.p + ((s.xc - s.yc) * 4) + 10)]

\* The loop while (xc <= yc): up to n passes.
RECURSIVE CircleLoop(_, _)
CircleLoop(s, n) ==
  IF s.done \/ n = 0 THEN s
  ELSE IF n = 1 THEN CirclePass(s)
  ELSE CircleLoop(CircleLoop(s, n \div 2), n - (n \div 2))

\* LcdCircle after the check of the centre.
CircleDraw(m, x, y, radius, mode) ==
  LET s == [m |-> m, x |-> x, y |-> y, xc |-> 0, yc |-> SChar(radius),
            p |-> SChar(3 - (radius * 2)), mode |-> mode, done |-> FALSE]
      w == CircleLoop(s, MaxPasses)
  IN [m |-> [w.m EXCEPT !.upd = TRUE], ret |-> OK]

\* Faulty variant of LcdCircle: only the column of the centre is checked.
LcdCircleChecksColumnOnly(m, x, y, radius, mode) ==
  IF x >= LCD_X_RES THEN [m |-> m, ret |-> OUT_OF_BORDER]
  ELSE CircleDraw(m, x, y, radius, mode)

LcdCircle(m, x, y, radius, mode) ==
  IF x >= LCD_X_RES \/ y >= LCD_Y_RES THEN [m |-> m, ret |-> OUT_OF_BORDER]
  ELSE CircleDraw(m, x, y, radius, mode)

(***************************************************************************)
(* LcdRect                                                                 *)
(***************************************************************************)
\* One pass of the first loop: the pixels (tmpIdx, y1) and (tmpIdx, y2).
RectHorizontalPass(s) ==
  IF ~(s.tmpIdx <= s.x2) THEN [s EXCEPT !.done = TRUE]
  ELSE LET a == LcdPixel(s.m, s.tmpIdx, s.y1, s.mode).m
           b == LcdPixel(a, s.tmpIdx, s.y2, s.mode).m
       IN [s EXCEPT !.m = b, !.tmpIdx = ToByte(s.tmpIdx + 1)]

\* Faulty variant of RectVerticalPass: the right edge is not drawn.
RectVerticalPassLeftOnly(s) ==
  IF ~(s.tmpIdx <= s.y2) THEN [s EXCEPT !.done = TRUE]
  ELSE [s EXCEPT !.m = LcdPixel(s.m, s.x1, s.tmpIdx, s.mode).m,
                 !.tmpIdx = ToByte(s.tmpIdx + 1)]

\* One pass of the second loop: the pixels (x1, tmpIdx) and (x2, tmpIdx).
RectVerticalPass(s) ==
  IF ~(s.tmpIdx <= s.y2) THEN [s EXCEPT !.done = TRUE]
  ELSE LET a == LcdPixel(s.m, s.x1, s.tmpIdx, s.mode).m
           b == LcdPixel(a, s.x2, s.tmpIdx, s.mode).m
       IN [s EXCEPT !.m = b, !.tmpIdx = ToByte(s.tmpIdx + 1)]

\* The first for loop of LcdRect: up to n passes.
RECURSIVE RectHorizontalLoop(_, _)
RectHorizontalLoop(s, n) ==
  IF s.done \/ n = 0 THEN s
  ELSE IF n = 1 THEN RectHorizontalPass(s)
  ELSE RectHorizontalLoop(RectHorizontalLoop(s, n \div 2), n - (n \div 2))

\* The second for loop of LcdRect: up to n passes.
RECURSIVE RectVerticalLoop(_, _)
RectVerticalLoop(s, n) ==
  IF s.done \/ n = 0 THEN s
  ELSE IF n = 1 THEN RectVerticalPass(s)
  ELSE RectVerticalLoop(RectVerticalLoop(s, n \div 2), n - (n \div 2))

\* The two loops and the assignment to UpdateLcd.
RectDraw(m, x1, y1, x2, y2, mode) ==
  LET s == [m |-> m, x1 |-> x1, y1 |-> y1, x2 |-> x2, y2 |-> y2,
            mode |-> mode, tmpIdx |-> x1, done |-> FALSE]
      h == RectHorizontalLoop(s, MaxPasses)
      v == RectVerticalLoop([h EXCEPT !.tmpIdx = y1, !.done = FALSE], MaxPasses)
  IN [m |-> [v.m EXCEPT !.upd = TRUE], ret |-> OK]

\* Faulty variant of LcdRect: a rectangle of no width or height is drawn too.
LcdRectDrawsFlat(m, x1, y1, x2, y2, mode) ==
  IF x1 >= LCD_X_RES \/ x2 >= LCD_X_RES \/ y1 >= LCD_Y_RES \/ y2 >= LCD_Y_RES
  THEN [m |-> m, ret |-> OUT_OF_BORDER]
  ELSE IF x2 >= x1 /\ y2 >= y1 THEN RectDraw(m, x1, y1, x2, y2, mode)
  ELSE [m |-> m, ret |-> OK]

LcdRect(m, x1, y1, x2, y2, mode) ==
  IF x1 >= LCD_X_RES \/ x2 >= LCD_X_RES \/ y1 >= LCD_Y_RES \/ y2 >= LCD_Y_RES
  THEN [m |-> m, ret |-> OUT_OF_BORDER]
  ELSE IF x2 > x1 /\ y2 > y1 THEN RectDraw(m, x1, y1, x2, y2, mode)
  ELSE [m |-> m, ret |-> OK]

(***************************************************************************)
(* LcdSingleBar                                                            *)
(***************************************************************************)
\* Faulty variant of BarTop: the bar is one row taller.
BarTopOneAbove(baseY, height) ==
  IF height >= baseY THEN 0 ELSE ToByte(baseY - height)

\* First row of the bar.
BarTop(baseY, height) == IF height > baseY THEN 0 ELSE ToByte(baseY - height + 1)

\* The inner loop: pixels (tmpIdxX..baseX+width-1, tmpIdxY), left to right,
\* stopping at the first pixel LcdPixel rejects.
RECURSIVE BarColumns(_, _, _, _, _)
BarColumns(m, tmpIdxX, tmpIdxY, limit, mode) ==
  IF ~(tmpIdxX < limit) THEN [m |-> m, ret |-> OK]
  ELSE LET r == LcdPixel(m, tmpIdxX, tmpIdxY, mode)
       IN IF r.ret # OK THEN r
          ELSE BarColumns(r.m, ToByte(tmpIdxX + 1), tmpIdxY, limit, mode)

\* The outer loop: rows tmpIdxY..baseY, top to bottom.
RECURSIVE BarRows(_, _, _, _, _, _)
BarRows(m, tmpIdxY, baseX, baseY, width, mode) ==
  IF ~(tmpIdxY <= baseY) THEN [m |-> [m EXCEPT !.upd = TRUE], ret |-> OK]
  ELSE LET r == BarColumns(m, baseX, tmpIdxY, baseX + width, mode)
       IN IF r.ret # OK THEN r
          ELSE BarRows(r.m, ToByte(tmpIdxY + 1), baseX, baseY, width, mode)

LcdSingleBar(m, baseX, baseY, height, width, mode) ==
  IF baseX >= LCD_X_RES \/ baseY >= LCD_Y_RES THEN [m |-> m, ret |-> OUT_OF_BORDER]
  ELSE BarRows(m, BarTop(baseY, height), baseX, baseY, width, mode)

(***************************************************************************)
(* LcdBars                                                                 *)
(***************************************************************************)
\* Column of the first bar, row of the base of every bar, and the columns
\* left empty between two bars (n3310.h).
BAR_X == 30
BAR_Y == 47
EMPTY_SPACE_BARS == 2

\* The byte tmpIdx receives for bar b.
BarsColumn(width, b) == ToByte(((width + EMPTY_SPACE_BARS) * b) + BAR_X)

\* The byte LcdSingleBar receives as the height of a bar.
BarsHeight(value, multiplier) == ToByte(value * multiplier)

\* What follows the call of LcdSingleBar for bar b, which returned r.
RECURSIVE BarsLoop(_, _, _, _, _, _, _)
BarsNext(r, data, numbBars, width, multiplier, b, tmpIdx) ==
  IF r.ret = OUT_OF_BORDER THEN r
  ELSE BarsLoop(r.m, data, numbBars, width, multiplier, ToByte(b + 1), tmpIdx)

\* The for loop from bar b on; tmpIdx is the column of the bar before.
BarsLoop(m, data, numbBars, width, multiplier, b, tmpIdx) ==
  IF ~(b < numbBars) THEN [m |-> [m EXCEPT !.upd = TRUE], ret |-> OK]
  ELSE IF tmpIdx > LCD_X_RES - 1 THEN [m |-> m, ret |-> OUT_OF_BORDER]
  ELSE BarsNext(LcdSingleBar(m, BarsColumn(width, b), BAR_Y,
                             BarsHeight(data[b + 1], multiplier), width, PIXEL_ON),
                data, numbBars, width, multiplier, b, BarsColumn(width, b))

LcdBars(m, data, numbBars, width, multiplier) ==
  BarsLoop(m, data, numbBars, width, multiplier, 0, 0)

(***************************************************************************)
(* LcdGotoXYFont                                                           *)
(***************************************************************************)
\* Faulty variant of LcdGotoXYFont: the row check lets y = 6 through.
LcdGotoXYFontLooseRow(m, x, y) ==
  IF x > 13 \/ y > 6 THEN [m |-> m, ret |-> OUT_OF_BORDER]
  ELSE [m |-> [m EXCEPT !.idx = x * 6 + y * 84], ret |-> OK]

LcdGotoXYFont(m, x, y) ==
  IF x > 13 \/ y > 5 THEN [m |-> m, ret |-> OUT_OF_BORDER]
  ELSE [m |-> [m EXCEPT !.idx = x * 6 + y * 84], ret |-> OK]

(***************************************************************************)
(* LcdChr                                                                  *)
(***************************************************************************)
\* The row of the glyph table for character code ch.
GlyphRow(ch) ==
  IF ch >= 32 /\ ch <= 127 THEN ToByte(ch - 32)
  ELSE IF ch >= 192 THEN ToByte(ch - 96)
  ELSE 95

\* Column i of the glyph, shifted up by one pixel.
GlyphColumn(ch, i) == ToByte(FontLookup(ch, i) * 2)

\* Faulty variant of Stretch: the fourth bit is not carried over.
StretchDropsTopBit(c) ==
  Or8(Or8(ToByte(And8(c, 1) * 3), ToByte(And8(c, 2) * 6)),
      ToByte(And8(c, 4) * 12))

\* The four low bits of c, each doubled.
Stretch(c) ==
  Or8(Or8(Or8(ToByte(And8(c, 1) * 3), ToByte(And8(c, 2) * 6)),
          ToByte(And8(c, 4) * 12)),
      ToByte(And8(c, 8) * 24))

\* FONT_1X: LcdCache[LcdCacheIdx++] = column, five times.
Chr1X(m, lay, ch) ==
  LET f[i \in 0..5] ==
        IF i = 0 THEN m
        ELSE LET p == f[i - 1]
                 at == p.idx
             IN Store([p EXCEPT !.idx = ToInt(at + 1)], lay, at, GlyphColumn(ch, i - 1))
  IN f[5]

\* FONT_2X: the five columns, each two bytes wide, upper half at tmpIdx and
\* lower half 84 bytes further.
Chr2XColumns(m, lay, ch, tmpIdx) ==
  LET f[i \in 0..5] ==
        IF i = 0 THEN m
        ELSE LET c == GlyphColumn(ch, i - 1)
                 b1 == Stretch(c)
                 b2 == Stretch(c \div 16)
                 t == tmpIdx + 2 * (i - 1)
                 s1 == Store(f[i - 1], lay, t, b1)
                 s2 == Store(s1, lay, t + 1, b1)
                 s3 == Store(s2, lay, (t + 2) + 82, b2)
             IN Store(s3, lay, (t + 2) + 83, b2)
  IN f[5]

\* The end of LcdChr: upper watermark, spacer column, cursor step.
ChrTail(m, lay) ==
  LET m1 == [m EXCEPT !.hi = IF m.idx > m.hi THEN m.idx ELSE m.hi]
      m2 == Store(m1, lay, m1.idx, 0)
  IN IF m2.idx = LCD_CACHE_SIZE - 1
     THEN [m |-> [m2 EXCEPT !.idx = 0], ret |-> OK_WITH_WRAP]
     ELSE [m |-> [m2 EXCEPT !.idx = ToInt(m2.idx + 1)], ret |-> OK]

\* The call LcdChr(size, ch) that ended in r, entered in the list of calls.
ChrCalled(r, size, ch) ==
  [m |-> [r.m EXCEPT !.chr = Append(@, <<size, ch, r.ret>>)], ret |-> r.ret]

LcdChr(m, lay, size, ch) ==
  LET m1 == [m EXCEPT !.lo = IF m.idx < m.lo THEN m.idx ELSE m.lo]
      row == GlyphRow(ch)
  IN ChrCalled(
       IF size = FONT_1X THEN ChrTail(Chr1X(m1, lay, row), lay)
       ELSE IF size = FONT_2X THEN
         LET tmpIdx == m1.idx - 84
             m2 == [m1 EXCEPT !.lo = IF tmpIdx < m1.lo THEN tmpIdx ELSE m1.lo]
         IN IF tmpIdx < 0 THEN [m |-> m2, ret |-> OUT_OF_BORDER]
            ELSE LET m3 == Chr2XColumns(m2, lay, row, tmpIdx)
                 IN ChrTail([m3 EXCEPT !.idx = Rem(m3.idx + 11, LCD_CACHE_SIZE)], lay)
       ELSE ChrTail(m1, lay),
       size, ch)

(***************************************************************************)
(* LcdStr, LcdFStr                                                         *)
(***************************************************************************)
\* Faulty variant of StrNext: a rejected character does not end the loop.
RECURSIVE StrLoop(_, _, _, _, _)
StrNextIgnoresBorder(r, lay, size, dataArray, tmpIdx) ==
  StrLoop(r.m, lay, size, dataArray, ToByte(tmpIdx + 1))

\* The rest of a pass of the while loop of LcdStr, r being what the LcdChr
\* call returned: the test of the response and the step of tmpIdx (a byte).
StrNext(r, lay, size, dataArray, tmpIdx) ==
  IF r.ret = OUT_OF_BORDER THEN [m |-> r.m, ret |-> OUT_OF_BORDER]
  ELSE StrLoop(r.m, lay, size, dataArray, ToByte(tmpIdx + 1))

\* The while loop of LcdStr.  dataArray is the byte array (a sequence, its
\* first byte at position 1).
StrLoop(m, lay, size, dataArray, tmpIdx) ==
  IF dataArray[tmpIdx + 1] = 0 THEN [m |-> m, ret |-> OK]
  ELSE StrNext(LcdChr(m, lay, size, dataArray[tmpIdx + 1]),
               lay, size, dataArray, tmpIdx)

LcdStr(m, lay, size, dataArray) == StrLoop(m, lay, size, dataArray, 0)

\* The rest of a pass of the for loop of LcdFStr, r being what the LcdChr
\* call returned: the test of the response and the step of dataPtr.
RECURSIVE FStrLoop(_, _, _, _, _)
FStrNext(r, lay, size, flash, dataPtr) ==
  IF r.ret = OUT_OF_BORDER THEN [m |-> r.m, ret |-> OUT_OF_BORDER]
  ELSE FStrLoop(r.m, lay, size, flash, dataPtr + 1)

\* The for loop of LcdFStr.  dataPtr is the position of the byte the
\* pointer is at.
FStrLoop(m, lay, size, flash, dataPtr) ==
  IF flash[dataPtr] = 0 THEN [m |-> m, ret |-> OK]
  ELSE FStrNext(LcdChr(m, lay, size, flash[dataPtr]), lay, size, flash, dataPtr)

LcdFStr(m, lay, size, flash) == FStrLoop(m, lay, size, flash, 1)

\* The loops of LcdStr and LcdFStr pass by pass, for calls that are followed
\* step by step.  s holds the machine state, the layout, the arguments, the
\* local tmpIdx or dataPtr, the return value and done, set when the
\* function returns.
\* The rest of a pass of the while loop of LcdStr, r being what the LcdChr
\* call returned.
StrPassNext(s, r) ==
  IF r.ret = OUT_OF_BORDER
  THEN [s EXCEPT !.m = r.m, !.ret = OUT_OF_BORDER, !.done = TRUE]
  ELSE [s EXCEPT !.m = r.m, !.tmpIdx = ToByte(@ + 1)]

\* One pass of the while loop of LcdStr; tmpIdx is a byte.
StrPass(s) ==
  IF s.dataArray[s.tmpIdx + 1] = 0 THEN [s EXCEPT !.ret = OK, !.done = TRUE]
  ELSE StrPassNext(s, LcdChr(s.m, s.lay, s.size, s.dataArray[s.tmpIdx + 1]))

\* The rest of a pass of the for loop of LcdFStr, r being what the LcdChr
\* call returned.
FStrPassNext(s, r) ==
  IF r.ret = OUT_OF_BORDER
  THEN [s EXCEPT !.m = r.m, !.ret = OUT_OF_BORDER, !.done = TRUE]
  ELSE [s EXCEPT !.m = r.m, !.dataPtr = @ + 1]

\* One pass of the for loop of LcdFStr; dataPtr is a pointer.
FStrPass(s) ==
  IF s.flash[s.dataPtr] = 0 THEN [s EXCEPT !.ret = OK, !.done = TRUE]
  ELSE FStrPassNext(s, LcdChr(s.m, s.lay, s.size, s.flash[s.dataPtr]))

\* Up to n passes of the for loop of LcdFStr.
RECURSIVE FStrRun(_, _)
FStrRun(s, n) ==
  IF s.done \/ n = 0 THEN s
  ELSE IF n = 1 THEN FStrPass(s)
  ELSE FStrRun(FStrRun(s, n \div 2), n - (n \div 2))

(***************************************************************************)
(* LcdClear, LcdImage, LcdUpdate                                           *)
(***************************************************************************)
AllIndices == 0..(LCD_CACHE_SIZE - 1)

LcdClear(m) ==
  [m EXCEPT !.cache = [i \in AllIndices |-> 0],
            !.lo = 0,
            !.hi = LCD_CACHE_SIZE - 1,
            !.upd = TRUE,
            !.written = @ \cup AllIndices,
            !.touched = @ \cup AllIndices]

\* Faulty variant of LcdImage: the watermarks are not set to the whole cache.
LcdImageKeepsRange(m, imageData) ==
  [m EXCEPT !.cache = [i \in AllIndices |-> imageData[i]],
            !.upd = TRUE,
            !.written = @ \cup AllIndices,
            !.touched = @ \cup AllIndices]

\* imageData is a function on 0..LCD_CACHE_SIZE-1.
LcdImage(m, imageData) ==
  [m EXCEPT !.cache = [i \in AllIndices |-> imageData[i]],
            !.lo = 0,
            !.hi = LCD_CACHE_SIZE - 1,
            !.upd = TRUE,
            !.written = @ \cup AllIndices,
            !.touched = @ \cup AllIndices]

\* The watermark clamp at the head of LcdUpdate.
Clamp(w) ==
  IF w < 0 THEN 0
  ELSE IF w >= LCD_CACHE_SIZE THEN LCD_CACHE_SIZE - 1
  ELSE w

Send(data, cd, src) == [cd |-> cd, data |-> data, src |-> src]

\* Faulty variant of UpdateBus: the loop stops one byte before HiWaterMark.
UpdateBusStopsEarly(m, lo, hi) ==
  <<Send(Or8(128, lo % LCD_X_RES), LCD_CMD, -1),
    Send(Or8(64, lo \div LCD_X_RES), LCD_CMD, -1)>>
  \o [k \in 1..(IF hi > lo THEN hi - lo ELSE 0) |->
        Send(Load(m, lo + k - 1), LCD_DATA, lo + k - 1)]

\* Faulty variant of UpdateBus: the page command is not sent.
UpdateBusColumnOnly(m, lo, hi) ==
  <<Send(Or8(128, lo % LCD_X_RES), LCD_CMD, -1)>>
  \o [k \in 1..(IF hi >= lo THEN hi - lo + 1 ELSE 0) |->
        Send(Load(m, lo + k - 1), LCD_DATA, lo + k - 1)]

\* The LcdSend calls of LcdUpdate for the original controller.  src is the
\* cache index a data byte was read from (-1 for a command).
UpdateBus(m, lo, hi) ==
  <<Send(Or8(128, lo % LCD_X_RES), LCD_CMD, -1),
    Send(Or8(64, lo \div LCD_X_RES), LCD_CMD, -1)>>
  \o [k \in 1..(IF hi >= lo THEN hi - lo + 1 ELSE 0) |->
        Send(Load(m, lo + k - 1), LCD_DATA, lo + k - 1)]

\* Faulty variant of LcdUpdate: the watermarks are not reset after the transfer.
LcdUpdateKeepsRange(m) ==
  LET lo == Clamp(m.lo)
      hi == Clamp(m.hi)
  IN [m |-> [m EXCEPT !.lo = lo,
                      !.hi = hi,
                      !.upd = FALSE,
                      !.written = {},
                      !.touched = lo..hi],
      bus |-> UpdateBus(m, lo, hi)]

LcdUpdate(m) ==
  LET lo == Clamp(m.lo)
      hi == Clamp(m.hi)
  IN [m |-> [m EXCEPT !.lo = LCD_CACHE_SIZE - 1,
                      !.hi = 0,
                      !.upd = FALSE,
                      !.written = {},
                      !.touched = lo..hi],
      bus |-> UpdateBus(m, lo, hi)]

(***************************************************************************)
(* LcdUpdate built with CHINA_LCD                                          *)
(***************************************************************************)
\* Faulty variant of ChinaPass: the address is not set again at the end of
\* a row.
ChinaPassNoRowStart(s) ==
  IF ~(s.i <= s.hi) THEN [s EXCEPT !.done = TRUE]
  ELSE [s EXCEPT !.bus = Append(@, Send(Load(s.m, s.i), LCD_DATA, s.i)),
                 !.x = ToByte(s.x + 1),
                 !.i = s.i + 1]

\* One pass of the for loop: the byte LcdCache[i] is sent, and behind the
\* last column of a row the column command for 0 and the page command for
\* the next row.
ChinaPass(s) ==
  IF ~(s.i <= s.hi) THEN [s EXCEPT !.done = TRUE]
  ELSE IF ToByte(s.x + 1) >= LCD_X_RES
  THEN [s EXCEPT !.bus = @ \o <<Send(Load(s.m, s.i), LCD_DATA, s.i),
                                Send(128, LCD_CMD, -1),
                                Send(Or8(64, ToByte(s.y + 1)), LCD_CMD, -1)>>,
                 !.x = 0,
                 !.y = ToByte(s.y + 1),
                 !.i = s.i + 1]
  ELSE [s EXCEPT !.bus = Append(@, Send(Load(s.m, s.i), LCD_DATA, s.i)),
                 !.x = ToByte(s.x + 1),
                 !.i = s.i + 1]

\* The for loop: up to n passes.
RECURSIVE ChinaLoop(_, _)
ChinaLoop(s, n) ==
  IF s.done \/ n = 0 THEN s
  ELSE IF n = 1 THEN ChinaPass(s)
  ELSE ChinaLoop(ChinaLoop(s, n \div 2), n - (n \div 2))

\* The LcdSend calls of LcdUpdate for the other controller.
UpdateBusChina(m, lo, hi) ==
  ChinaLoop([m |-> m, i |-> lo, hi |-> hi,
             x |-> ToByte(lo % LCD_X_RES),
             y |-> ToByte((lo \div LCD_X_RES) + 1),
             bus |-> <<Send(Or8(128, ToByte(lo % LCD_X_RES)), LCD_CMD, -1),
                       Send(Or8(64, ToByte((lo \div LCD_X_RES) + 1)), LCD_CMD, -1)>>,
             done |-> FALSE], LCD_CACHE_SIZE + 1).bus
  \o <<Send(33, LCD_CMD, -1), Send(69, LCD_CMD, -1), Send(32, LCD_CMD, -1)>>

LcdUpdateChina(m) ==
  LET lo == Clamp(m.lo)
      hi == Clamp(m.hi)
  IN [m |-> [m EXCEPT !.lo = LCD_CACHE_SIZE - 1,
                      !.hi = 0,
                      !.upd = FALSE,
                      !.written = {},
                      !.touched = lo..hi],
      bus |-> UpdateBusChina(m, lo, hi)]

(***************************************************************************)
(* LcdInit                                                                 *)
(***************************************************************************)
\* The controller set-up commands of LcdInit.
InitCommands ==
  <<Send(33, LCD_CMD, -1), Send(200, LCD_CMD, -1), Send(6, LCD_CMD, -1),
    Send(19, LCD_CMD, -1), Send(32, LCD_CMD, -1), Send(12, LCD_CMD, -1)>>

\* The driver's statics at program start (zero-initialised).
Reset ==
  [cache |-> [i \in AllIndices |-> 0], lo |-> 0, hi |-> 0, idx |-> 0,
   upd |-> FALSE, written |-> {}, touched |-> {}, pix |-> <<>>,
   chr |-> <<>>]

\* Faulty variant of LcdInit: the cache is not cleared before the transfer.
LcdInitKeepsCache(m) ==
  LET u == LcdUpdate(m)
  IN [m |-> u.m, bus |-> InitCommands \o u.bus]

LcdInit(m) ==
  LET u == LcdUpdate(LcdClear(m))
  IN [m |-> u.m, bus |-> InitCommands \o u.bus]

\* LcdInit built with CHINA_LCD.
LcdInitChina(m) ==
  LET u == LcdUpdateChina(LcdClear(m))
  IN [m |-> u.m, bus |-> InitCommands \o u.bus]

(***************************************************************************)
(* The display controller at the other end of LcdSend                      *)
(***************************************************************************)
\* The controller after power-up: RAM of unknown content (every byte fill),
\* write address 0, basic command set.
PowerUp(fill) ==
  [mem |-> [i \in AllIndices |-> fill], addr |-> 0, ext |-> FALSE]

\* The controller d after receiving the command v.  In the basic command
\* set 1xxxxxxx sets the column and 01000yyy the page of the write address;
\* 001000xH selects the basic (H = 0) or the extended (H = 1) command set;
\* every other command leaves RAM and write address alone.
DisplayCommand(d, v) ==
  IF Bit(v, 7) = 1
  THEN IF d.ext \/ (v % 128) >= LCD_X_RES THEN d
       ELSE [d EXCEPT !.addr = (d.addr \div LCD_X_RES) * LCD_X_RES + (v % 128)]
  ELSE IF Bit(v, 6) = 1
  THEN IF d.ext \/ (v % 8) >= (LCD_Y_RES \div 8) THEN d
       ELSE [d EXCEPT !.addr = (v % 8) * LCD_X_RES + (d.addr % LCD_X_RES)]
  ELSE IF Bit(v, 5) = 1
  THEN [d EXCEPT !.ext = (Bit(v, 0) = 1)]
  ELSE d

\* The controller d after receiving the n data bytes b[i..i+n-1]: each is
\* stored at the write address, which then advances by one and returns to 0
\* behind the last byte of the RAM.
DisplayData(d, b, i, n) ==
  [d EXCEPT !.mem = [a \in AllIndices |->
                       LET k == (a - d.addr) % LCD_CACHE_SIZE
                       IN IF k < n
                          THEN b[i + k + LCD_CACHE_SIZE
                                     * ((n - 1 - k) \div LCD_CACHE_SIZE)].data
                          ELSE d.mem[a]],
            !.addr = (d.addr + n) % LCD_CACHE_SIZE]

\* The number of data bytes in a row that b holds from position i on.
DataRun(b, i) ==
  LET stops == {k \in i..Len(b) : b[k].cd # LCD_DATA}
  IN IF stops = {} THEN Len(b) - i + 1
     ELSE (CHOOSE k \in stops : \A j \in stops : k <= j) - i

\* The controller d after receiving b from position i on, n = DataRun(b, i).
RECURSIVE DisplayRun(_, _, _, _)
DisplayRun(d, b, i, n) ==
  IF i > Len(b) THEN d
  ELSE IF n = 0 THEN DisplayRun(DisplayCommand(d, b[i].data), b, i + 1,
                                DataRun(b, i + 1))
  ELSE DisplayRun(DisplayData(d, b, i, n), b, i + n, 0)

\* The controller d after receiving the sequence b.
Display(d, b) == DisplayRun(d, b, 1, DataRun(b, 1))

(***************************************************************************)
(* Arguments the calls are explored with                                   *)
(***************************************************************************)
Modes == {PIXEL_OFF, PIXEL_ON, PIXEL_XOR}
Sizes == {FONT_1X, FONT_2X}

CursorArgs == {<<0, 1>>, <<13, 5>>, <<14, 0>>}
CharArgs == {65, 10}
PixelArgs == {<<0, 0>>, <<5, 9>>, <<83, 47>>, <<84, 0>>, <<3, 48>>}
BarArgs ==
  {<<0, 3, 4, 5, PIXEL_ON>>, <<80, 47, 2, 5, PIXEL_ON>>, <<84, 10, 1, 1, PIXEL_ON>>}
\* The images LcdImage is given, by number.
Images == <<[i \in AllIndices |-> (i * 7 + 1) % 256]>>

(***************************************************************************)
(* Actions: one per public function                                        *)
(***************************************************************************)
\* The machine state m becomes the driver's state.
Commit(m) ==
  /\ LcdCache' = m.cache
  /\ LoWaterMark' = m.lo
  /\ HiWaterMark' = m.hi
  /\ LcdCacheIdx' = m.idx
  /\ UpdateLcd' = m.upd
  /\ written' = m.written
  /\ touched' = m.touched
  /\ pixels' = m.pix
  /\ chars' = m.chr

\* The call handed the bytes b to LcdSend, and the controller received them.
Sent(b) ==
  /\ bus' = b
  /\ ram' = Display(ram, b)

\* No call is under way.
Idle == [pc |-> "idle"]

\* Calls are made one after the other, while the bound on the number of
\* calls allows it.
MayCall == run = Idle /\ nops < MaxOps

Called(op, args, ret) ==
  /\ nops' = nops + 1
  /\ last' = [op |-> op, args |-> args, ret |-> ret]
  /\ before' = last
  /\ cacheBefore' = LcdCache
  /\ run' = Idle

Init ==
  LET r == LcdInit(Reset)
  IN /\ \E fill \in {0, 255} : ram = Display(PowerUp(fill), r.bus)
     /\ LcdCache = r.m.cache
     /\ LoWaterMark = r.m.lo
     /\ HiWaterMark = r.m.hi
     /\ LcdCacheIdx = r.m.idx
     /\ UpdateLcd = r.m.upd
     /\ written = r.m.written
     /\ touched = r.m.touched
     /\ layout = "unknown"
     /\ bus = r.bus
     /\ last = [op |-> "LcdInit", args |-> <<>>, ret |-> "void"]
     /\ before = [op |-> "reset", args |-> <<>>, ret |-> "void"]
     /\ cacheBefore = Reset.cache
     /\ pixels = r.m.pix
     /\ chars = r.m.chr
     /\ nops = 0
     /\ run = Idle

Clear ==
  /\ MayCall
  /\ Commit(LcdClear(Machine))
  /\ Called("LcdClear", <<>>, "void")
  /\ Sent(<<>>)
  /\ UNCHANGED layout

Image ==
  /\ MayCall
  /\ \E n \in DOMAIN Images :
       /\ Commit(LcdImage(Machine, Images[n]))
       /\ Called("LcdImage", <<n>>, "void")
  /\ Sent(<<>>)
  /\ UNCHANGED layout

Update ==
  /\ MayCall
  /\ LET r == LcdUpdate(Machine)
     IN /\ Commit(r.m)
        /\ Called("LcdUpdate", <<>>, "void")
        /\ Sent(r.bus)
  /\ UNCHANGED layout

GotoXYFont ==
  /\ MayCall
  /\ \E a \in CursorArgs :
    LET r == LcdGotoXYFont(Machine, a[1], a[2])
    IN /\ Commit(r.m)
       /\ Called("LcdGotoXYFont", a, r.ret)
       /\ Sent(<<>>)
       /\ UNCHANGED layout

\* A store past the end of the cache lands on what the build placed there:
\* the layout is chosen when the first such store happens and is fixed
\* from then on.
Chr ==
  /\ MayCall
  /\ \E size \in Sizes, ch \in CharArgs, lay \in Layouts :
    /\ layout \in {"unknown", lay}
    /\ LET r == LcdChr(Machine, lay, size, ch)
       IN /\ Commit(r.m)
          /\ Called("LcdChr", <<size, ch>>, r.ret)
          /\ layout' = IF \E i \in r.m.touched : ~InCache(i) THEN lay ELSE layout
    /\ Sent(<<>>)

Pixel ==
  /\ MayCall
  /\ \E a \in PixelArgs, mode \in Modes :
    LET r == LcdPixel(Machine, a[1], a[2], mode)
    IN /\ Commit(r.m)
       /\ Called("LcdPixel", <<a[1], a[2], mode>>, r.ret)
       /\ Sent(<<>>)
       /\ UNCHANGED layout

SingleBar ==
  /\ MayCall
  /\ \E a \in BarArgs :
    LET r == LcdSingleBar(Machine, a[1], a[2], a[3], a[4], a[5])
    IN /\ Commit(r.m)
       /\ Called("LcdSingleBar", a, r.ret)
       /\ Sent(<<>>)
       /\ UNCHANGED layout

\* LcdInit called again by a program that is already running.
InitAgain ==
  /\ MayCall
  /\ LET r == LcdInit(Machine)
     IN /\ Commit(r.m)
        /\ Called("LcdInit", <<>>, "void")
        /\ Sent(r.bus)
  /\ UNCHANGED layout

Next ==
  \/ InitAgain
  \/ Clear
  \/ Image
  \/ Update
  \/ GotoXYFont
  \/ Chr
  \/ Pixel
  \/ SingleBar

Spec == Init /\ [][Next]_vars

(***************************************************************************)
(* The text functions, explored with more cursors, characters and strings  *)
(***************************************************************************)
TextCursorArgs ==
  {<<0, 1>>, <<12, 5>>, <<13, 5>>, <<14, 5>>, <<13, 6>>, <<255, 255>>}
TextChars == {65, 10, 200}
\* The strings LcdStr and LcdFStr are given, by number: the bytes of the
\* array, terminator included.
Strings == << <<65, 200, 66, 0>>, <<0>>, <<66, 0, 67>> >>

\* The call stored past the end of the cache.  Up to its first such store a
\* call runs the same way in every layout, so whether it overruns does not
\* depend on the layout.
Overruns(m) == \E i \in m.touched : ~InCache(i)

TextGotoXYFont ==
  /\ MayCall
  /\ \E a \in TextCursorArgs :
    LET r == LcdGotoXYFont(Machine, a[1], a[2])
    IN /\ Commit(r.m)
       /\ Called("LcdGotoXYFont", a, r.ret)
       /\ Sent(<<>>)
       /\ UNCHANGED layout

TextChr ==
  /\ MayCall
  /\ \E size \in Sizes, ch \in TextChars :
    LET probe == LcdChr(Machine, "other", size, ch)
    IN IF ~Overruns(probe.m)
       THEN /\ Commit(probe.m)
            /\ Called("LcdChr", <<size, ch>>, probe.ret)
            /\ UNCHANGED layout
       ELSE \E lay \in Layouts :
              /\ layout \in {"unknown", lay}
              /\ LET r == LcdChr(Machine, lay, size, ch)
                 IN /\ Commit(r.m)
                    /\ Called("LcdChr", <<size, ch>>, r.ret)
              /\ layout' = lay
  /\ Sent(<<>>)

Str ==
  /\ MayCall
  /\ \E size \in Sizes, n \in DOMAIN Strings :
    LET probe == LcdStr(Machine, "other", size, Strings[n])
    IN IF ~Overruns(probe.m)
       THEN /\ Commit(probe.m)
            /\ Called("LcdStr", <<size, n>>, probe.ret)
            /\ UNCHANGED layout
       ELSE \E lay \in Layouts :
              /\ layout \in {"unknown", lay}
              /\ LET r == LcdStr(Machine, lay, size, Strings[n])
                 IN /\ Commit(r.m)
                    /\ Called("LcdStr", <<size, n>>, r.ret)
              /\ layout' = lay
  /\ Sent(<<>>)

FStr ==
  /\ MayCall
  /\ \E size \in Sizes, n \in DOMAIN Strings :
    LET probe == LcdFStr(Machine, "other", size, Strings[n])
    IN IF ~Overruns(probe.m)
       THEN /\ Commit(probe.m)
            /\ Called("LcdFStr", <<size, n>>, probe.ret)
            /\ UNCHANGED layout
       ELSE \E lay \in Layouts :
              /\ layout \in {"unknown", lay}
              /\ LET r == LcdFStr(Machine, lay, size, Strings[n])
                 IN /\ Commit(r.m)
                    /\ Called("LcdFStr", <<size, n>>, r.ret)
              /\ layout' = lay
  /\ Sent(<<>>)

NextText ==
  \/ Image
  \/ TextGotoXYFont
  \/ TextChr
  \/ Str
  \/ FStr

SpecText == Init /\ [][NextText]_vars

(***************************************************************************)
(* The drawing functions, explored on an empty and on a filled cache       *)
(***************************************************************************)
\* <<x1, y1, x2, y2, mode>>
LineArgs ==
  {<<0, 0, 83, 47, PIXEL_ON>>, <<10, 40, 14, 5, PIXEL_ON>>,
   <<35, 34, 46, 34, PIXEL_ON>>, <<20, 3, 20, 30, PIXEL_ON>>,
   <<7, 7, 7, 7, PIXEL_ON>>, <<5, 5, 9, 9, PIXEL_ON>>,
   <<60, 10, 40, 20, PIXEL_ON>>, <<78, 40, 90, 46, PIXEL_ON>>,
   <<78, 40, 90, 46, PIXEL_XOR>>, <<10, 40, 20, 255, PIXEL_ON>>,
   <<84, 0, 80, 0, PIXEL_ON>>, <<3, 2, 200, 1, PIXEL_OFF>>}
\* <<x, y, radius, mode>>
CircleArgs ==
  {<<41, 23, 20, PIXEL_ON>>, <<41, 23, 0, PIXEL_ON>>, <<83, 47, 0, PIXEL_ON>>,
   <<0, 0, 3, PIXEL_XOR>>, <<41, 23, 100, PIXEL_ON>>, <<41, 23, 127, PIXEL_ON>>,
   <<41, 23, 128, PIXEL_XOR>>, <<41, 23, 255, PIXEL_ON>>,
   <<84, 5, 2, PIXEL_ON>>, <<5, 48, 2, PIXEL_ON>>, <<0, 0, 44, PIXEL_ON>>}
\* <<x1, y1, x2, y2, mode>>
RectArgs ==
  {<<0, 0, 83, 47, PIXEL_ON>>, <<3, 3, 6, 5, PIXEL_XOR>>,
   <<10, 10, 10, 20, PIXEL_XOR>>, <<10, 10, 20, 10, PIXEL_ON>>,
   <<20, 20, 10, 10, PIXEL_ON>>, <<84, 0, 90, 5, PIXEL_ON>>,
   <<0, 0, 5, 48, PIXEL_ON>>, <<30, 10, 40, 20, PIXEL_ON>>}

MayDraw == run = Idle /\ nops < MaxDraws

DrawImage ==
  /\ MayDraw
  /\ \E n \in DOMAIN Images :
       /\ Commit(LcdImage(Machine, Images[n]))
       /\ Called("LcdImage", <<n>>, "void")
  /\ Sent(<<>>)
  /\ UNCHANGED layout

Line ==
  /\ MayDraw
  /\ \E a \in LineArgs :
    LET r == LcdLine(Machine, a[1], a[2], a[3], a[4], a[5])
    IN /\ Commit(r.m)
       /\ Called("LcdLine", a, r.ret)
       /\ Sent(<<>>)
       /\ UNCHANGED layout

Circle ==
  /\ MayDraw
  /\ \E a \in CircleArgs :
    LET r == LcdCircle(Machine, a[1], a[2], a[3], a[4])
    IN /\ Commit(r.m)
       /\ Called("LcdCircle", a, r.ret)
       /\ Sent(<<>>)
       /\ UNCHANGED layout

Rect ==
  /\ MayDraw
  /\ \E a \in RectArgs :
    LET r == LcdRect(Machine, a[1], a[2], a[3], a[4], a[5])
    IN /\ Commit(r.m)
       /\ Called("LcdRect", a, r.ret)
       /\ Sent(<<>>)
       /\ UNCHANGED layout

NextShapes ==
  \/ DrawImage
  \/ Line
  \/ Circle
  \/ Rect

SpecShapes == Init /\ [][NextShapes]_vars

(***************************************************************************)
(* The bar functions, explored on an empty and on a filled cache           *)
(***************************************************************************)
\* <<baseX, baseY, height, width, mode>>
BarShapeArgs ==
  {<<0, 3, 4, 5, PIXEL_ON>>, <<79, 3, 4, 5, PIXEL_ON>>,
   <<79, 47, 4, 5, PIXEL_ON>>, <<10, 47, 48, 3, PIXEL_ON>>,
   <<10, 20, 0, 5, PIXEL_ON>>, <<10, 20, 5, 0, PIXEL_ON>>,
   <<0, 0, 0, 1, PIXEL_ON>>, <<5, 30, 255, 2, PIXEL_ON>>,
   <<80, 47, 2, 5, PIXEL_ON>>, <<40, 9, 3, 4, PIXEL_XOR>>,
   <<84, 10, 1, 1, PIXEL_ON>>, <<10, 48, 1, 1, PIXEL_ON>>}
\* <<data, numbBars, width, multiplier>>
BarsArgs ==
  {<<<<1, 2, 3, 4, 5>>, 5, 3, 2>>, <<<<128, 1>>, 2, 3, 2>>,
   <<<<1, 1, 1, 1, 1, 1, 1, 1, 1, 1, 1, 1>>, 12, 3, 1>>,
   <<<<3>>, 1, 60, 1>>, <<<<0, 0>>, 2, 254, 1>>, <<<<7>>, 0, 3, 1>>,
   <<<<100, 2>>, 2, 3, 1>>}

BarDraw ==
  /\ MayDraw
  /\ \E a \in BarShapeArgs :
    LET r == LcdSingleBar(Machine, a[1], a[2], a[3], a[4], a[5])
    IN /\ Commit(r.m)
       /\ Called("LcdSingleBar", a, r.ret)
       /\ Sent(<<>>)
       /\ UNCHANGED layout

Bars ==
  /\ MayDraw
  /\ \E a \in BarsArgs :
    LET r == LcdBars(Machine, a[1], a[2], a[3], a[4])
    IN /\ Commit(r.m)
       /\ Called("LcdBars", a, r.ret)
       /\ Sent(<<>>)
       /\ UNCHANGED layout

NextBars ==
  \/ DrawImage
  \/ BarDraw
  \/ Bars

SpecBars == Init /\ [][NextBars]_vars

(***************************************************************************)
(* The driver built with CHINA_LCD                                         *)
(***************************************************************************)
InitChina ==
  LET r == LcdInitChina(Reset)
  IN /\ \E fill \in {0, 255} : ram = Display(PowerUp(fill), r.bus)
     /\ LcdCache = r.m.cache
     /\ LoWaterMark = r.m.lo
     /\ HiWaterMark = r.m.hi
     /\ LcdCacheIdx = r.m.idx
     /\ UpdateLcd = r.m.upd
     /\ written = r.m.written
     /\ touched = r.m.touched
     /\ layout = "unknown"
     /\ bus = r.bus
     /\ last = [op |-> "LcdInit", args |-> <<>>, ret |-> "void"]
     /\ before = [op |-> "reset", args |-> <<>>, ret |-> "void"]
     /\ cacheBefore = Reset.cache
     /\ pixels = r.m.pix
     /\ chars = r.m.chr
     /\ nops = 0
     /\ run = Idle

UpdateChina ==
  /\ MayDraw
  /\ LET r == LcdUpdateChina(Machine)
     IN /\ Commit(r.m)
        /\ Called("LcdUpdate", <<>>, "void")
        /\ Sent(r.bus)
  /\ UNCHANGED layout

NextChina ==
  \/ DrawImage
  \/ BarDraw
  \/ UpdateChina

SpecChina == InitChina /\ [][NextChina]_vars

(***************************************************************************)
(* LcdStr and LcdFStr followed pass by pass                                *)
(***************************************************************************)
\* Number of calls up to which LcdStr or LcdFStr is entered.
MaxRuns == 2

\* The strings the calls are given, by number: a short one, the empty one,
\* and strings of 255 and of 256 characters before the terminator.
StepStrings ==
  << <<65, 200, 66, 0>>, <<0>>,
     [i \in 1..256 |-> IF i = 256 THEN 0 ELSE 65],
     [i \in 1..257 |-> IF i = 257 THEN 0 ELSE 65] >>

\* LcdStr or LcdFStr is entered: nothing but the program's position changes.
Entered(op, size, n) ==
  /\ run = Idle
  /\ nops < MaxRuns
  /\ run' = [pc |-> op, size |-> size, n |-> n, at |-> 0, m0 |-> Machine]
  /\ UNCHANGED <<LcdCache, LoWaterMark, HiWaterMark, LcdCacheIdx, UpdateLcd,
                 layout, bus, last, before, written, touched, cacheBefore,
                 pixels, chars, nops, ram>>

StrEnter == \E size \in Sizes, n \in DOMAIN StepStrings : Entered("LcdStr", size, n)

FStrEnter == \E size \in Sizes, n \in DOMAIN StepStrings : Entered("LcdFStr", size, n)

\* The loop state of LcdStr at the start of a pass, in layout lay.
StrAt(lay) ==
  [m |-> Machine, lay |-> lay, size |-> run.size,
   dataArray |-> StepStrings[run.n], tmpIdx |-> run.at, ret |-> OK,
   done |-> FALSE]

\* The loop state of LcdFStr at the start of a pass, in layout lay.
FStrAt(lay) ==
  [m |-> Machine, lay |-> lay, size |-> run.size,
   flash |-> StepStrings[run.n], dataPtr |-> run.at + 1, ret |-> OK,
   done |-> FALSE]

\* A pass ended in the loop state t, with the local at: the driver's state
\* is that of t, and the call has returned or stands before its next pass.
Stepped(t, at) ==
  /\ Commit(t.m)
  /\ IF t.done
     THEN /\ nops' = nops + 1
          /\ last' = [op |-> run.pc, args |-> <<run.size, run.n>>, ret |-> t.ret]
          /\ before' = last
          /\ cacheBefore' = run.m0.cache
          /\ run' = Idle
     ELSE /\ run' = [run EXCEPT !.at = at]
          /\ UNCHANGED <<nops, last, before, cacheBefore>>

StrStep ==
  /\ run.pc = "LcdStr"
  /\ LET probe == StrPass(StrAt("other"))
     IN IF ~Overruns(probe.m)
        THEN /\ Stepped(probe, probe.tmpIdx)
             /\ UNCHANGED layout
        ELSE \E lay \in Layouts :
               /\ layout \in {"unknown", lay}
               /\ LET t == StrPass(StrAt(lay))
                  IN Stepped(t, t.tmpIdx)
               /\ layout' = lay
  /\ Sent(<<>>)

FStrStep ==
  /\ run.pc = "LcdFStr"
  /\ LET probe == FStrPass(FStrAt("other"))
     IN IF ~Overruns(probe.m)
        THEN /\ Stepped(probe, probe.dataPtr - 1)
             /\ UNCHANGED layout
        ELSE \E lay \in Layouts :
               /\ layout \in {"unknown", lay}
               /\ LET t == FStrPass(FStrAt(lay))
                  IN Stepped(t, t.dataPtr - 1)
               /\ layout' = lay
  /\ Sent(<<>>)

NextStrSteps ==
  \/ TextGotoXYFont
  \/ StrEnter
  \/ StrStep
  \/ FStrEnter
  \/ FStrStep

\* What a pass of the call under way does to the program's position: the
\* call returns, or it stands before another pass.  Of the steps of
\* NextStrSteps, those of StrStep and FStrStep are the ones that change run,
\* and they change it so; one of the two is possible whenever run is not Idle.
Advance ==
  /\ run # Idle
  /\ \E at \in 0..Len(StepStrings[run.n]) : run' \in {Idle, [run EXCEPT !.at = at]}

\* A call that was entered goes on running: the processor does not stop
\* inside LcdStr or LcdFStr.
SpecStrSteps == Init /\ [][NextStrSteps]_vars /\ WF_run(Advance)

(***************************************************************************)
(* The drawing functions followed pass by pass                             *)
(***************************************************************************)
\* Number of calls up to which a drawing function is entered.
MaxShapes == 1

\* The arguments LcdBars is given, <<data, numbBars, width, multiplier>>, by
\* number.
BarsStepArgs ==
  << <<<<1, 2, 3, 4, 5>>, 5, 3, 2>>, <<<<0, 0>>, 2, 254, 1>>, <<<<7>>, 0, 3, 1>>,
     <<<<255, 255, 255>>, 3, 255, 255>> >>

\* The function op, called with a, stands before the first pass of its loop
\* in the loop state t; run.s holds the locals, t without its machine state.
Begun(op, a, t) ==
  /\ Commit(t.m)
  /\ run' = [pc |-> op, a |-> a, s |-> [t EXCEPT !.m = <<>>], cache0 |-> LcdCache]
  /\ UNCHANGED <<nops, last, before, cacheBefore, layout>>
  /\ Sent(<<>>)

\* The function under way stands before another pass, in the loop state t.
Continued(t) ==
  /\ Commit(t.m)
  /\ run' = [run EXCEPT !.s = [t EXCEPT !.m = <<>>]]
  /\ UNCHANGED <<nops, last, before, cacheBefore, layout>>
  /\ Sent(<<>>)

\* The function op, called with a on the cache cache0, returns r.ret and
\* leaves the machine state r.m.
Ended(op, a, r, cache0) ==
  /\ Commit(r.m)
  /\ nops' = nops + 1
  /\ last' = [op |-> op, args |-> a, ret |-> r.ret]
  /\ before' = last
  /\ cacheBefore' = cache0
  /\ run' = Idle
  /\ UNCHANGED layout
  /\ Sent(<<>>)

\* The locals of LcdLine before its loop, the first pixel drawn.
LineStart(m, x1, y1, x2, y2, mode) ==
  LET stepy == IF y2 - y1 < 0 THEN -1 ELSE 1
      stepx == IF x2 - x1 < 0 THEN -1 ELSE 1
      dy == 2 * (IF y2 - y1 < 0 THEN -(y2 - y1) ELSE y2 - y1)
      dx == 2 * (IF x2 - x1 < 0 THEN -(x2 - x1) ELSE x2 - x1)
  IN [m |-> m, x1 |-> x1, y1 |-> y1, x2 |-> x2, y2 |-> y2,
      stepx |-> stepx, stepy |-> stepy, dx |-> dx, dy |-> dy,
      fraction |-> IF dx > dy THEN dy - (dx \div 2) ELSE dx - (dy \div 2),
      mode |-> mode, response |-> OK, done |-> FALSE]

\* LcdLine up to its loop: it returns if the first pixel is rejected.
LineEnter ==
  /\ run = Idle
  /\ nops < MaxShapes
  /\ \E a \in {<<0, 0, 83, 47, PIXEL_ON>>, <<3, 2, 200, 1, PIXEL_OFF>>,
               <<10, 40, 20, 255, PIXEL_ON>>, <<255, 255, 0, 0, PIXEL_XOR>>,
               <<7, 7, 7, 7, PIXEL_ON>>, <<60, 10, 40, 20, PIXEL_XOR>>} :
       \E r \in {LcdPixel(Machine, a[1], a[2], a[5])} :
         IF r.ret # OK THEN Ended("LcdLine", a, r, LcdCache)
         ELSE Begun("LcdLine", a, LineStart(r.m, a[1], a[2], a[3], a[4], a[5]))

\* A pass of the loop LcdLine is in: another pass follows, or the function
\* returns the response of LcdPixel, or OK with UpdateLcd set.
LineStep ==
  /\ run.pc = "LcdLine"
  /\ \E t \in {IF run.s.dx > run.s.dy THEN LineXPass([run.s EXCEPT !.m = Machine])
                ELSE LineYPass([run.s EXCEPT !.m = Machine])} :
       IF ~t.done THEN Continued(t)
       ELSE IF t.response # OK
       THEN Ended("LcdLine", run.a, [m |-> t.m, ret |-> t.response], run.cache0)
       ELSE Ended("LcdLine", run.a, [m |-> [t.m EXCEPT !.upd = TRUE], ret |-> OK],
                  run.cache0)

\* The end of a pass of the loop of LcdCircle: the step of xc, yc and p.
CircleNext(s) ==
  IF s.p < 0
  THEN [s EXCEPT !.xc = SChar(s.xc + 1), !.p = SChar(s.p + (s.xc * 4) + 6),
                 !.call = 0]
  ELSE [s EXCEPT !.xc = SChar(s.xc + 1), !.yc = SChar(s.yc - 1),
                 !.p = SChar(s.p + ((s.xc - s.yc) * 4) + 10), !.call = 0]

\* The loop of LcdCircle, one LcdPixel call at a time: the test of the loop
\* before the first call of a pass, the step of xc, yc and p with the last.
\* s.call counts the calls made in the pass under way.
CircleCall(s) ==
  IF s.call = 0 /\ ~(s.xc <= s.yc) THEN [s EXCEPT !.done = TRUE]
  ELSE LET eight ==
             << <<s.x + s.xc, s.y + s.yc>>, <<s.x + s.xc, s.y - s.yc>>,
                <<s.x - s.xc, s.y + s.yc>>, <<s.x - s.xc, s.y - s.yc>>,
                <<s.x + s.yc, s.y + s.xc>>, <<s.x + s.yc, s.y - s.xc>>,
                <<s.x - s.yc, s.y + s.xc>>, <<s.x - s.yc, s.y - s.xc>> >>
           at == eight[s.call + 1]
           d == [s EXCEPT !.m = LcdPixel(s.m, ToByte(at[1]), ToByte(at[2]), s.mode).m,
                          !.call = @ + 1]
       IN IF d.call = 8 THEN CircleNext(d) ELSE d

\* LcdCircle up to its loop.
CircleEnter ==
  /\ run = Idle
  /\ nops < MaxShapes
  /\ \E a \in {<<41, 23, 127, PIXEL_ON>>, <<0, 0, 44, PIXEL_ON>>,
               <<41, 23, 255, PIXEL_XOR>>, <<83, 47, 0, PIXEL_OFF>>,
               <<84, 5, 2, PIXEL_ON>>, <<41, 23, 20, PIXEL_XOR>>} :
       IF a[1] >= LCD_X_RES \/ a[2] >= LCD_Y_RES
       THEN Ended("LcdCircle", a, [m |-> Machine, ret |-> OUT_OF_BORDER], LcdCache)
       ELSE Begun("LcdCircle", a,
                  [m |-> Machine, x |-> a[1], y |-> a[2], xc |-> 0,
                   yc |-> SChar(a[3]), p |-> SChar(3 - (a[3] * 2)), mode |-> a[4],
                   done |-> FALSE, call |-> 0])

\* A LcdPixel call of the loop of LcdCircle, or the end of the loop.
CircleStep ==
  /\ run.pc = "LcdCircle"
  /\ \E t \in {CircleCall([run.s EXCEPT !.m = Machine])} :
       IF ~t.done THEN Continued(t)
       ELSE Ended("LcdCircle", run.a, [m |-> [t.m EXCEPT !.upd = TRUE], ret |-> OK],
                  run.cache0)

\* LcdRect up to its first loop; s.loop names the loop the function is in.
RectEnter ==
  /\ run = Idle
  /\ nops < MaxShapes
  /\ \E a \in {<<0, 0, 83, 47, PIXEL_ON>>, <<3, 3, 6, 5, PIXEL_XOR>>,
               <<84, 0, 90, 5, PIXEL_ON>>, <<20, 20, 10, 10, PIXEL_OFF>>,
               <<0, 0, 255, 255, PIXEL_ON>>} :
       IF a[1] >= LCD_X_RES \/ a[3] >= LCD_X_RES \/ a[2] >= LCD_Y_RES \/ a[4] >= LCD_Y_RES
       THEN Ended("LcdRect", a, [m |-> Machine, ret |-> OUT_OF_BORDER], LcdCache)
       ELSE IF a[3] > a[1] /\ a[4] > a[2]
       THEN Begun("LcdRect", a,
                  [m |-> Machine, x1 |-> a[1], y1 |-> a[2], x2 |-> a[3],
                   y2 |-> a[4], mode |-> a[5], tmpIdx |-> a[1], done |-> FALSE,
                   loop |-> "horizontal"])
       ELSE Ended("LcdRect", a, [m |-> Machine, ret |-> OK], LcdCache)

\* A pass of the loop LcdRect is in: the first loop is left for the second
\* one, the second one for the end of the function.
RectStep ==
  /\ run.pc = "LcdRect"
  /\ IF run.s.loop = "horizontal"
     THEN \E t \in {RectHorizontalPass([run.s EXCEPT !.m = Machine])} :
            IF ~t.done THEN Continued(t)
            ELSE Continued([t EXCEPT !.tmpIdx = t.y1, !.done = FALSE,
                                     !.loop = "vertical"])
     ELSE \E t \in {RectVerticalPass([run.s EXCEPT !.m = Machine])} :
            IF ~t.done THEN Continued(t)
            ELSE Ended("LcdRect", run.a,
                       [m |-> [t.m EXCEPT !.upd = TRUE], ret |-> OK], run.cache0)

\* The locals of LcdSingleBar before its outer loop.
BarStart(m, baseX, baseY, height, width, mode) ==
  [m |-> m, baseX |-> baseX, baseY |-> baseY, width |-> width, mode |-> mode,
   tmpIdxX |-> baseX, tmpIdxY |-> BarTop(baseY, height), ret |-> OK,
   done |-> FALSE, loop |-> "rows"]

\* The test of the outer loop: the function returns OK, or the inner loop
\* is entered.
BarRowsPass(s) ==
  IF ~(s.tmpIdxY <= s.baseY)
  THEN [s EXCEPT !.m.upd = TRUE, !.ret = OK, !.done = TRUE]
  ELSE [s EXCEPT !.tmpIdxX = s.baseX, !.loop = "columns"]

\* Faulty variant of BarColumnsNext: the response of LcdPixel is dropped.
BarColumnsNextDropsResponse(s, r) ==
  [s EXCEPT !.m = r.m, !.tmpIdxX = ToByte(@ + 1)]

\* The rest of a pass of the inner loop, r being what LcdPixel returned.
BarColumnsNext(s, r) ==
  IF r.ret # OK THEN [s EXCEPT !.m = r.m, !.ret = r.ret, !.done = TRUE]
  ELSE [s EXCEPT !.m = r.m, !.tmpIdxX = ToByte(@ + 1)]

\* One pass of the inner loop, or its end and the step of the outer loop.
BarColumnsPass(s) ==
  IF ~(s.tmpIdxX < s.baseX + s.width)
  THEN [s EXCEPT !.tmpIdxY = ToByte(@ + 1), !.loop = "rows"]
  ELSE BarColumnsNext(s, LcdPixel(s.m, s.tmpIdxX, s.tmpIdxY, s.mode))

\* LcdSingleBar up to its loops.
BarEnter ==
  /\ run = Idle
  /\ nops < MaxShapes
  /\ \E a \in {<<80, 47, 2, 255, PIXEL_ON>>, <<5, 30, 255, 2, PIXEL_ON>>,
               <<10, 20, 5, 0, PIXEL_OFF>>, <<0, 0, 0, 1, PIXEL_XOR>>,
               <<255, 255, 255, 255, PIXEL_ON>>} :
       IF a[1] >= LCD_X_RES \/ a[2] >= LCD_Y_RES
       THEN Ended("LcdSingleBar", a, [m |-> Machine, ret |-> OUT_OF_BORDER], LcdCache)
       ELSE Begun("LcdSingleBar", a, BarStart(Machine, a[1], a[2], a[3], a[4], a[5]))

\* A pass of the loop LcdSingleBar is in.
BarStep ==
  /\ run.pc = "LcdSingleBar"
  /\ \E t \in {IF run.s.loop = "rows" THEN BarRowsPass([run.s EXCEPT !.m = Machine])
                ELSE BarColumnsPass([run.s EXCEPT !.m = Machine])} :
       IF ~t.done THEN Continued(t)
       ELSE Ended("LcdSingleBar", run.a, [m |-> t.m, ret |-> t.ret], run.cache0)

\* The test of the loop of LcdBars and the pass up to the entry of
\* LcdSingleBar, which returns at once for a column off the display.
BarsForPass(s) ==
  IF ~(s.b < s.numbBars) THEN [s EXCEPT !.m.upd = TRUE, !.ret = OK, !.done = TRUE]
  ELSE IF s.tmpIdx > LCD_X_RES - 1 THEN [s EXCEPT !.ret = OUT_OF_BORDER, !.done = TRUE]
  ELSE IF BarsColumn(s.width, s.b) >= LCD_X_RES \/ BAR_Y >= LCD_Y_RES
  THEN [s EXCEPT !.tmpIdx = BarsColumn(s.width, s.b), !.ret = OUT_OF_BORDER,
                 !.done = TRUE]
  ELSE [s EXCEPT !.tmpIdx = BarsColumn(s.width, s.b), !.loop = "bar",
                 !.bar = [BarStart(s.m, BarsColumn(s.width, s.b), BAR_Y,
                                   BarsHeight(s.data[s.b + 1], s.multiplier),
                                   s.width, PIXEL_ON) EXCEPT !.m = <<>>]]

\* The LcdSingleBar call of LcdBars has made a pass and is in t: it goes on,
\* or it has returned and LcdBars returns or steps to the next bar.
BarsBarPassed(s, t) ==
  IF ~t.done THEN [s EXCEPT !.m = t.m, !.bar = [t EXCEPT !.m = <<>>]]
  ELSE IF t.ret = OUT_OF_BORDER
  THEN [s EXCEPT !.m = t.m, !.ret = OUT_OF_BORDER, !.done = TRUE]
  ELSE [s EXCEPT !.m = t.m, !.b = ToByte(@ + 1), !.loop = "for", !.bar = <<>>]

\* A pass of LcdBars or of the LcdSingleBar it has called; s.bar holds the
\* locals of that call, s.loop tells whether there is one.
BarsPass(s) ==
  IF s.loop = "for" THEN BarsForPass(s)
  ELSE BarsBarPassed(s, IF s.bar.loop = "rows"
                        THEN BarRowsPass([s.bar EXCEPT !.m = s.m])
                        ELSE BarColumnsPass([s.bar EXCEPT !.m = s.m]))

\* LcdBars up to its loop.
BarsEnter ==
  /\ run = Idle
  /\ nops < MaxShapes
  /\ \E n \in DOMAIN BarsStepArgs :
       Begun("LcdBars", <<n>>,
             [m |-> Machine, data |-> BarsStepArgs[n][1],
              numbBars |-> BarsStepArgs[n][2], width |-> BarsStepArgs[n][3],
              multiplier |-> BarsStepArgs[n][4], b |-> 0, tmpIdx |-> 0,
              ret |-> OK, done |-> FALSE, loop |-> "for", bar |-> <<>>])

\* A pass of the loop LcdBars is in.
BarsStep ==
  /\ run.pc = "LcdBars"
  /\ \E t \in {BarsPass([run.s EXCEPT !.m = Machine])} :
       IF ~t.done THEN Continued(t)
       ELSE Ended("LcdBars", run.a, [m |-> t.m, ret |-> t.ret], run.cache0)

\* LcdPixel has no loop: it is entered and returns in one step.
PixelEnter ==
  /\ run = Idle
  /\ nops < MaxShapes
  /\ \E a \in PixelArgs, mode \in Modes :
       Ended("LcdPixel", <<a[1], a[2], mode>>, LcdPixel(Machine, a[1], a[2], mode),
             LcdCache)

NextDrawSteps ==
  \/ PixelEnter
  \/ LineEnter
  \/ LineStep
  \/ CircleEnter
  \/ CircleStep
  \/ RectEnter
  \/ RectStep
  \/ BarEnter
  \/ BarStep
  \/ BarsEnter
  \/ BarsStep

\* A drawing function that was entered goes on running: the processor does
\* not stop inside it.
SpecDrawSteps ==
  /\ Init
  /\ [][NextDrawSteps]_vars
  /\ WF_vars(LineStep \/ CircleStep \/ RectStep \/ BarStep \/ BarsStep)

(***************************************************************************)
(* Properties                                                              *)
(***************************************************************************)
\* The data bytes of a sequence of LcdSend calls.
DataBytes(b) == SelectSeq(b, LAMBDA e : e.cd = LCD_DATA)

InDisplay(x, y) == x < LCD_X_RES /\ y < LCD_Y_RES

\* C1: every cache index a call reads or writes lies in 0..LCD_CACHE_SIZE-1.
C1_AccessInCache == \A i \in touched : 0 <= i /\ i < LCD_CACHE_SIZE

\* C2: every cache index written since the last LcdUpdate lies inside the
\* dirty range [LoWaterMark, HiWaterMark].
C2_WrittenInDirtyRange ==
  \A i \in written : LoWaterMark <= i /\ i <= HiWaterMark

\* C3: every data byte an LcdUpdate transmits comes from an index between
\* the smallest and the largest index written since the previous LcdUpdate;
\* if nothing was written, it transmits no data byte.
C3_FlushWithinWritten ==
  [][last'.op = "LcdUpdate" =>
       \A k \in DOMAIN bus' :
         bus'[k].cd = LCD_DATA =>
           \E a, b \in written : a <= bus'[k].src /\ bus'[k].src <= b]_vars

\* C4: directly after a flush, LcdPixel(x,y,mode) for an in-range (x,y)
\* followed by LcdUpdate sends the column command of k mod 84, the page
\* command of k div 84 and the one data byte LcdCache[k], k = (y div 8)*84 + x.
C4_PixelThenFlush ==
  [][(/\ before.op \in {"LcdUpdate", "LcdInit"}
      /\ last.op = "LcdPixel"
      /\ last.ret = OK
      /\ last'.op = "LcdUpdate") =>
       LET k == (last.args[2] \div 8) * LCD_X_RES + last.args[1]
       IN bus' = <<Send(128 + (k % LCD_X_RES), LCD_CMD, -1),
                   Send(64 + (k \div LCD_X_RES), LCD_CMD, -1),
                   Send(LcdCache[k], LCD_DATA, k)>>]_vars

\* C4 witness: after a flush, the pixel in the last cache byte was drawn and
\* flushed.
C4_Witness ==
  /\ last.op = "LcdUpdate"
  /\ before.op = "LcdPixel"
  /\ nops = 2
  /\ Len(bus) = 3
  /\ bus[3].src = LCD_CACHE_SIZE - 1

\* C5: a second LcdUpdate directly after an LcdUpdate transmits no data byte
\* and leaves cache, cursor and dirty range as the first one left them.
C5_FlushTwice ==
  [][(last.op = "LcdUpdate" /\ last'.op = "LcdUpdate") =>
       /\ DataBytes(bus') = <<>>
       /\ LcdCache' = LcdCache
       /\ LcdCacheIdx' = LcdCacheIdx
       /\ LoWaterMark' = LoWaterMark
       /\ HiWaterMark' = HiWaterMark]_vars

\* C5 witness: two flushes in a row, the first of which had data to send.
C5_Witness ==
  /\ last.op = "LcdUpdate"
  /\ before.op = "LcdUpdate"
  /\ nops = 3
  /\ \E i \in AllIndices : LcdCache[i] # 0

\* C6: LcdClear followed by LcdUpdate transmits LCD_CACHE_SIZE zero bytes;
\* LcdImage(img) followed by LcdUpdate transmits the bytes of img in index
\* order.
C6_ClearOrImageThenFlush ==
  [][(last'.op = "LcdUpdate" /\ last.op \in {"LcdClear", "LcdImage"}) =>
       LET d == DataBytes(bus')
       IN /\ Len(d) = LCD_CACHE_SIZE
          /\ \A k \in 1..Len(d) :
               d[k].data = IF last.op = "LcdClear" THEN 0
                           ELSE Images[last.args[1]][k - 1]]_vars

\* C6 witness: after an earlier call, an image was loaded and flushed.
C6_Witness ==
  /\ last.op = "LcdUpdate"
  /\ before.op = "LcdImage"
  /\ nops = 3
  /\ Len(bus) = LCD_CACHE_SIZE + 2
  /\ bus[LCD_CACHE_SIZE + 2].data = Images[1][LCD_CACHE_SIZE - 1]

\* Every bit of the cache except bit b of byte k is the same in c and d.
SameExceptBit(c, d, k, b) ==
  /\ \A i \in AllIndices \ {k} : c[i] = d[i]
  /\ \A j \in (0..7) \ {b} : Bit(c[k], j) = Bit(d[k], j)

\* C7: for an in-range (x,y), LcdPixel(x,y,PIXEL_ON) returns OK and leaves
\* bit y mod 8 of byte (y div 8)*84 + x set, LcdPixel(x,y,PIXEL_OFF) returns
\* OK and leaves it clear; no other bit of the cache and not the cursor
\* changes.
C7_PixelOnOff ==
  [][(/\ last'.op = "LcdPixel"
      /\ InDisplay(last'.args[1], last'.args[2])
      /\ last'.args[3] \in {PIXEL_ON, PIXEL_OFF}) =>
       LET k == (last'.args[2] \div 8) * LCD_X_RES + last'.args[1]
           b == last'.args[2] % 8
       IN /\ last'.ret = OK
          /\ Bit(LcdCache'[k], b) = IF last'.args[3] = PIXEL_ON THEN 1 ELSE 0
          /\ SameExceptBit(LcdCache, LcdCache', k, b)
          /\ LcdCacheIdx' = LcdCacheIdx]_vars

\* C7 witness: a pixel of a loaded image was switched off.
C7_Witness ==
  /\ last = [op |-> "LcdPixel", args |-> <<83, 47, PIXEL_OFF>>, ret |-> OK]
  /\ cacheBefore = Images[1]
  /\ Bit(cacheBefore[LCD_CACHE_SIZE - 1], 7) = 1
  /\ Bit(LcdCache[LCD_CACHE_SIZE - 1], 7) = 0

\* C8: for an in-range (x,y), LcdPixel(x,y,PIXEL_XOR) inverts exactly the
\* addressed bit, and a second LcdPixel(x,y,PIXEL_XOR) directly after it
\* restores the cache of before the first.
C8_PixelXor ==
  [][(/\ last'.op = "LcdPixel"
      /\ InDisplay(last'.args[1], last'.args[2])
      /\ last'.args[3] = PIXEL_XOR) =>
       LET k == (last'.args[2] \div 8) * LCD_X_RES + last'.args[1]
           b == last'.args[2] % 8
       IN /\ Bit(LcdCache'[k], b) = 1 - Bit(LcdCache[k], b)
          /\ SameExceptBit(LcdCache, LcdCache', k, b)
          /\ (last = last') => LcdCache' = cacheBefore]_vars

\* C8 witness: the same pixel was inverted twice in a row in a cache that
\* is not blank.
C8_Witness ==
  /\ last = [op |-> "LcdPixel", args |-> <<5, 9, PIXEL_XOR>>, ret |-> OK]
  /\ before = last
  /\ Bit(cacheBefore[LCD_X_RES + 5], 1) # Bit(LcdCache[LCD_X_RES + 5], 1)
  /\ \E i \in AllIndices : i # LCD_X_RES + 5 /\ LcdCache[i] # 0

\* C9: for x >= 84 or y >= 48, LcdPixel returns OUT_OF_BORDER and leaves
\* cache, dirty range and cursor unchanged.
C9_PixelOutOfBorder ==
  [][(/\ last'.op = "LcdPixel"
      /\ ~InDisplay(last'.args[1], last'.args[2])) =>
       /\ last'.ret = OUT_OF_BORDER
       /\ LcdCache' = LcdCache
       /\ LoWaterMark' = LoWaterMark
       /\ HiWaterMark' = HiWaterMark
       /\ LcdCacheIdx' = LcdCacheIdx]_vars

\* C9 witness: a pixel one column right of the display was rejected while
\* the cache held an image.
C9_Witness ==
  /\ last.op = "LcdPixel"
  /\ last.args[1] = LCD_X_RES
  /\ last.ret = OUT_OF_BORDER
  /\ before.op = "LcdImage"

\* C10: an LcdSingleBar call that returns OUT_OF_BORDER has modified no
\* cache byte.
C10_BarRejectedUnchanged ==
  [][(last'.op = "LcdSingleBar" /\ last'.ret = OUT_OF_BORDER) =>
       LcdCache' = LcdCache]_vars

(***************************************************************************)
(* Text                                                                    *)
(***************************************************************************)
\* C11: for every cursor c that LcdGotoXYFont or earlier LcdChr calls left
\* and every character code, LcdChr(FONT_1X, code) stores the five glyph
\* columns, each shifted left by one bit, at LcdCache[c..c+4] and 0 at
\* LcdCache[c+5], changes no other cache byte, and leaves the cursor at c+6,
\* or at 0 with OK_WITH_WRAP when c+5 is the last index of the cache.
C11_Chr1XWritesGlyph ==
  [][(/\ last'.op = "LcdChr"
      /\ last'.args[1] = FONT_1X) =>
       LET c == LcdCacheIdx
           code == last'.args[2]
       IN /\ c >= 0
          /\ c + 5 <= LCD_CACHE_SIZE - 1
          /\ \A i \in 0..4 :
               LcdCache'[c + i] = (FontLookup(GlyphRow(code), i) * 2) % 256
          /\ LcdCache'[c + 5] = 0
          /\ \A j \in AllIndices \ (c..(c + 5)) : LcdCache'[j] = LcdCache[j]
          /\ IF c + 5 = LCD_CACHE_SIZE - 1
             THEN LcdCacheIdx' = 0 /\ last'.ret = OK_WITH_WRAP
             ELSE LcdCacheIdx' = c + 6 /\ last'.ret = OK]_vars

\* v is the nibble n with every bit doubled: bit k of n is set exactly when
\* bits 2k and 2k+1 of v are set.
IsDoubled(n, v) ==
  \A k \in 0..3 : Bit(v, 2 * k) = Bit(n, k) /\ Bit(v, 2 * k + 1) = Bit(n, k)

\* C12: for a cursor c with c >= 84 and c+9 <= 503, LcdChr(FONT_2X, code)
\* stores, for each glyph column i with s the column shifted left by one
\* bit, the doubled low nibble of s at LcdCache[c-84+2i] and
\* LcdCache[c-84+2i+1] and the doubled high nibble at LcdCache[c+2i] and
\* LcdCache[c+2i+1], and returns OK or OK_WITH_WRAP.
C12_Chr2XDoubles ==
  [][(/\ last'.op = "LcdChr"
      /\ last'.args[1] = FONT_2X
      /\ LcdCacheIdx >= LCD_X_RES
      /\ LcdCacheIdx + 9 <= LCD_CACHE_SIZE - 1) =>
       LET c == LcdCacheIdx
           code == last'.args[2]
       IN /\ \A i \in 0..4 :
               LET s == (FontLookup(GlyphRow(code), i) * 2) % 256
               IN /\ IsDoubled(s % 16, LcdCache'[c - LCD_X_RES + 2 * i])
                  /\ IsDoubled(s % 16, LcdCache'[c - LCD_X_RES + 2 * i + 1])
                  /\ IsDoubled(s \div 16, LcdCache'[c + 2 * i])
                  /\ IsDoubled(s \div 16, LcdCache'[c + 2 * i + 1])
          /\ last'.ret \in {OK, OK_WITH_WRAP}]_vars

\* A double-size 'A' has been drawn inside the cache: the first column of
\* its upper and lower half is in place.
C12_Witness ==
  /\ last.op = "LcdChr"
  /\ last.args = <<FONT_2X, 65>>
  /\ last.ret = OK
  /\ \A i \in touched : InCache(i)
  /\ LcdCacheIdx >= 96
  /\ LcdCache[LcdCacheIdx - 96] = 240
  /\ LcdCache[LcdCacheIdx - 12] = 255

\* C13: a LcdChr call that does not return OUT_OF_BORDER returns
\* OK_WITH_WRAP exactly when it leaves the cursor at a smaller index than
\* it found it.
C13_WrapReported ==
  [][(/\ last'.op = "LcdChr"
      /\ last'.ret # OUT_OF_BORDER) =>
       ((last'.ret = OK_WITH_WRAP) <=> (LcdCacheIdx' < LcdCacheIdx))]_vars

\* C14: LcdGotoXYFont(x, y) returns OK and sets the cursor to x*6 + y*84
\* exactly when x <= 13 and y <= 5; for every other x or y it returns
\* OUT_OF_BORDER and leaves the cursor, the cache and the watermarks as
\* they were.
C14_GotoXYFont ==
  [][(last'.op = "LcdGotoXYFont") =>
       LET x == last'.args[1]
           y == last'.args[2]
       IN IF x <= 13 /\ y <= 5
          THEN /\ last'.ret = OK
               /\ LcdCacheIdx' = x * 6 + y * LCD_X_RES
          ELSE /\ last'.ret = OUT_OF_BORDER
               /\ LcdCacheIdx' = LcdCacheIdx
               /\ LcdCache' = LcdCache
               /\ LoWaterMark' = LoWaterMark
               /\ HiWaterMark' = HiWaterMark]_vars

\* The cursor was placed in the last text cell and a call with row 6 was
\* then rejected.
C14_Witness ==
  /\ before.op = "LcdGotoXYFont"
  /\ before.args = <<13, 5>>
  /\ before.ret = OK
  /\ last.op = "LcdGotoXYFont"
  /\ last.args = <<13, 6>>
  /\ last.ret = OUT_OF_BORDER
  /\ LcdCacheIdx = 498

\* The number of characters of the byte array s before its terminator.
StrLen(s) == CHOOSE n \in 0..(Len(s) - 1) : s[n + 1] = 0 /\ \A j \in 1..n : s[j] # 0

\* The machine state after LcdChr has been applied to the first k
\* characters of s, one after the other.
AfterChars(m, lay, size, s, k) ==
  LET f[i \in 0..k] == IF i = 0 THEN m ELSE LcdChr(f[i - 1], lay, size, s[i]).m
  IN f[k]

Drawn(q) == {<<q[j][1], q[j][2]>> : j \in {k \in DOMAIN q : q[k][4] = OK}}

\* Cache d is cache c with the pixels of P drawn in the mode, each once,
\* and nothing else changed.
PixelsDrawn(c, d, P, mode) ==
  LET I == {(p[2] \div 8) * LCD_X_RES + p[1] : p \in P}
  IN /\ \A i \in AllIndices \ I : d[i] = c[i]
     /\ \A i \in I, k \in 0..7 :
          Bit(d[i], k) =
            IF <<i % LCD_X_RES, (i \div LCD_X_RES) * 8 + k>> \in P
            THEN CASE mode = PIXEL_ON -> 1
                   [] mode = PIXEL_OFF -> 0
                   [] OTHER -> 1 - Bit(c[i], k)
            ELSE Bit(c[i], k)

Abs(v) == IF v < 0 THEN -v ELSE v
Max(a, b) == IF a > b THEN a ELSE b
Min(a, b) == IF a < b THEN a ELSE b

\* C16: with both endpoints on the display LcdLine(x1,y1,x2,y2,PIXEL_ON)
\* returns OK and sets exactly max(|x2-x1|,|y2-y1|)+1 pixels: one for each
\* coordinate of the longer axis, both endpoints among them, every pixel
\* inside the bounding box of the endpoints (so a horizontal or vertical
\* line is exactly its segment and a line to its own start is one pixel).
C16_LineInside ==
  [][(/\ last'.op = "LcdLine"
      /\ last'.args[5] = PIXEL_ON
      /\ InDisplay(last'.args[1], last'.args[2])
      /\ InDisplay(last'.args[3], last'.args[4])) =>
       LET x1 == last'.args[1]
           y1 == last'.args[2]
           x2 == last'.args[3]
           y2 == last'.args[4]
           P == Drawn(pixels')
       IN /\ last'.ret = OK
          /\ Cardinality(P) = Max(Abs(x2 - x1), Abs(y2 - y1)) + 1
          /\ Abs(x2 - x1) >= Abs(y2 - y1) =>
               \A x \in Min(x1, x2)..Max(x1, x2) :
                 Cardinality({p \in P : p[1] = x}) = 1
          /\ Abs(y2 - y1) >= Abs(x2 - x1) =>
               \A y \in Min(y1, y2)..Max(y1, y2) :
                 Cardinality({p \in P : p[2] = y}) = 1
          /\ <<x1, y1>> \in P
          /\ <<x2, y2>> \in P
          /\ \A p \in P : /\ Min(x1, x2) <= p[1] /\ p[1] <= Max(x1, x2)
                          /\ Min(y1, y2) <= p[2] /\ p[2] <= Max(y1, y2)
          /\ PixelsDrawn(LcdCache, LcdCache', P, PIXEL_ON)]_vars

\* A slanted line was drawn from corner to corner over the image.
C16_Witness ==
  /\ before.op = "LcdImage"
  /\ last.op = "LcdLine"
  /\ last.args = <<0, 0, 83, 47, PIXEL_ON>>
  /\ last.ret = OK
  /\ Len(pixels) = 84

\* Point k of the Bresenham sequence from (x1,y1) to (x2,y2), over the
\* integers: k steps along the longer axis, and along the other axis the
\* nearest whole number of steps (a half is rounded away from the start).
LinePoint(x1, y1, x2, y2, k) ==
  LET adx == Abs(x2 - x1)
      ady == Abs(y2 - y1)
      sx == IF x2 < x1 THEN -1 ELSE 1
      sy == IF y2 < y1 THEN -1 ELSE 1
  IN IF adx > ady
     THEN <<x1 + sx * k, y1 + sy * ((2 * ady * k + adx) \div (2 * adx))>>
     ELSE IF ady = 0 THEN <<x1, y1>>
     ELSE <<x1 + sx * ((2 * adx * k + ady) \div (2 * ady)), y1 + sy * k>>

OnDisplay(p) == p[1] >= 0 /\ p[1] < LCD_X_RES /\ p[2] >= 0 /\ p[2] < LCD_Y_RES

\* C17: when LcdLine returns OUT_OF_BORDER, the pixels it has changed are
\* exactly the points of its Bresenham sequence from (x1,y1) up to, but
\* not including, the first point off the display: no later point and no
\* pixel of a coordinate that wrapped around in a byte; when (x1,y1) is off
\* the display nothing is changed.
C17_LineCutAtBorder ==
  [][(/\ last'.op = "LcdLine"
      /\ last'.ret = OUT_OF_BORDER) =>
       LET x1 == last'.args[1]
           y1 == last'.args[2]
           x2 == last'.args[3]
           y2 == last'.args[4]
           n == Max(Abs(x2 - x1), Abs(y2 - y1))
           ok == SelectSeq(pixels', LAMBDA e : e[4] = OK)
       IN \E j \in 0..n :
            /\ ~OnDisplay(LinePoint(x1, y1, x2, y2, j))
            /\ \A k \in 0..(j - 1) : OnDisplay(LinePoint(x1, y1, x2, y2, k))
            /\ Len(ok) = j
            /\ \A k \in 0..(j - 1) :
                 <<ok[k + 1][1], ok[k + 1][2]>> = LinePoint(x1, y1, x2, y2, k)
            /\ PixelsDrawn(LcdCache, LcdCache',
                           {LinePoint(x1, y1, x2, y2, k) : k \in 0..(j - 1)},
                           last'.args[5])]_vars

\* A slanted line that leaves the display at its right edge was cut there:
\* six pixels drawn, the seventh rejected.
C17_Witness ==
  /\ last.op = "LcdLine"
  /\ last.args = <<78, 40, 90, 46, PIXEL_ON>>
  /\ last.ret = OUT_OF_BORDER
  /\ Len(pixels) = 7
  /\ pixels[6][4] = OK
  /\ pixels[7][4] = OUT_OF_BORDER

\* C18: LcdCircle returns OUT_OF_BORDER, with the cache untouched, exactly
\* when the centre is off the display; for a centre on the display it
\* returns OK whatever the radius (0..255).
C18_CircleCentre ==
  [][(last'.op = "LcdCircle") =>
       IF InDisplay(last'.args[1], last'.args[2])
       THEN last'.ret = OK
       ELSE /\ last'.ret = OUT_OF_BORDER
            /\ LcdCache' = LcdCache
            /\ pixels' = <<>>]_vars

\* A circle with its centre off the display was rejected, and then one
\* with the largest radius and its centre on the display returned OK.
C18_Witness ==
  /\ before.op = "LcdCircle"
  /\ before.args = <<5, 48, 2, PIXEL_ON>>
  /\ before.ret = OUT_OF_BORDER
  /\ last.op = "LcdCircle"
  /\ last.args = <<41, 23, 255, PIXEL_ON>>
  /\ last.ret = OK

\* C19: LcdCircle(x, y, 0, PIXEL_ON) with (x,y) on the display sets the
\* pixel (x,y) and changes no other bit of the cache.
C19_CircleRadiusZero ==
  [][(/\ last'.op = "LcdCircle"
      /\ last'.args[3] = 0
      /\ last'.args[4] = PIXEL_ON
      /\ InDisplay(last'.args[1], last'.args[2])) =>
       PixelsDrawn(LcdCache, LcdCache',
                   {<<last'.args[1], last'.args[2]>>}, PIXEL_ON)]_vars

\* A circle of radius 0 has set the pixel (41,23), which was clear before.
C19_Witness ==
  /\ last.op = "LcdCircle"
  /\ last.args = <<41, 23, 0, PIXEL_ON>>
  /\ last.ret = OK
  /\ Bit(cacheBefore[2 * LCD_X_RES + 41], 7) = 0
  /\ Bit(LcdCache[2 * LCD_X_RES + 41], 7) = 1

\* C20: LcdRect returns OUT_OF_BORDER exactly when x1 or x2 is at least 84
\* or y1 or y2 is at least 48, and then changes nothing; with all four in
\* range but x2 <= x1 or y2 <= y1 it returns OK and changes nothing.
C20_RectRejectedOrFlat ==
  [][(last'.op = "LcdRect") =>
       LET x1 == last'.args[1]
           y1 == last'.args[2]
           x2 == last'.args[3]
           y2 == last'.args[4]
           inside == InDisplay(x1, y1) /\ InDisplay(x2, y2)
           same == /\ LcdCache' = LcdCache
                   /\ LoWaterMark' = LoWaterMark
                   /\ HiWaterMark' = HiWaterMark
                   /\ UpdateLcd' = UpdateLcd
                   /\ pixels' = <<>>
       IN /\ (last'.ret = OUT_OF_BORDER) <=> ~inside
          /\ ~inside => same
          /\ (inside /\ (x2 <= x1 \/ y2 <= y1)) => (last'.ret = OK /\ same)]_vars

\* A rectangle of no width was accepted without drawing, after one that
\* reaches over the bottom edge was rejected.
C20_Witness ==
  /\ before.op = "LcdRect"
  /\ before.args = <<0, 0, 5, 48, PIXEL_ON>>
  /\ before.ret = OUT_OF_BORDER
  /\ last.op = "LcdRect"
  /\ last.args = <<10, 10, 10, 20, PIXEL_XOR>>
  /\ last.ret = OK
  /\ pixels = <<>>
  /\ LcdCache = cacheBefore

\* The pixels on the four edges of the rectangle with corners (x1,y1), (x2,y2).
RectEdges(x1, y1, x2, y2) ==
  {<<x, y>> \in (x1..x2) \X (y1..y2) : x \in {x1, x2} \/ y \in {y1, y2}}

\* C21: for corners on the display with x2 > x1 and y2 > y1, LcdRect with
\* PIXEL_ON returns OK, sets exactly the pixels on the four edges of the
\* rectangle, and leaves every pixel inside and outside it as it was.
C21_RectEdges ==
  [][(/\ last'.op = "LcdRect"
      /\ last'.args[5] = PIXEL_ON
      /\ InDisplay(last'.args[1], last'.args[2])
      /\ InDisplay(last'.args[3], last'.args[4])
      /\ last'.args[3] > last'.args[1]
      /\ last'.args[4] > last'.args[2]) =>
       /\ last'.ret = OK
       /\ PixelsDrawn(LcdCache, LcdCache',
                      RectEdges(last'.args[1], last'.args[2],
                                last'.args[3], last'.args[4]), PIXEL_ON)]_vars

\* A rectangle was drawn over a cache that was not empty: an edge pixel that
\* was clear is set, and a set pixel inside the rectangle is still set next
\* to a clear one.
C21_Witness ==
  /\ last.op = "LcdRect"
  /\ last.args = <<30, 10, 40, 20, PIXEL_ON>>
  /\ last.ret = OK
  /\ \E p \in RectEdges(30, 10, 40, 20) :
       /\ Bit(cacheBefore[PixelIndex(p[1], p[2])], p[2] % 8) = 0
       /\ Bit(LcdCache[PixelIndex(p[1], p[2])], p[2] % 8) = 1
  /\ \E x \in 31..39, y \in 11..19 :
       Bit(LcdCache[PixelIndex(x, y)], y % 8) = 1
  /\ \E x \in 31..39, y \in 11..19 :
       Bit(LcdCache[PixelIndex(x, y)], y % 8) = 0

\* The pixels of a bar of the given width and height whose lowest row is
\* baseY and whose first column is baseX, cut at row 0.
BarPixels(baseX, baseY, height, width) ==
  LET top == IF height > baseY THEN 0 ELSE baseY - height + 1
  IN (baseX..(baseX + width - 1)) \X (top..baseY)

\* C22: with the anchor on the display and baseX + width <= 84, LcdSingleBar
\* with PIXEL_ON returns OK and sets exactly the pixels of columns
\* baseX..baseX+width-1 and rows top..baseY, top being 0 when height > baseY
\* and baseY-height+1 otherwise; with height 0 or width 0 it sets nothing.
C22_SingleBarPixels ==
  [][(/\ last'.op = "LcdSingleBar"
      /\ last'.args[5] = PIXEL_ON
      /\ InDisplay(last'.args[1], last'.args[2])
      /\ last'.args[1] + last'.args[4] <= LCD_X_RES) =>
       /\ last'.ret = OK
       /\ PixelsDrawn(LcdCache, LcdCache',
                      BarPixels(last'.args[1], last'.args[2],
                                last'.args[3], last'.args[4]), PIXEL_ON)
       /\ (last'.args[3] = 0 \/ last'.args[4] = 0) => LcdCache' = LcdCache]_vars

\* A bar taller than the rows above its base was drawn up to row 0 on the
\* empty cache, after a bar of height 0 had drawn nothing.
C22_Witness ==
  /\ before.op = "LcdSingleBar"
  /\ before.args = <<10, 20, 0, 5, PIXEL_ON>>
  /\ before.ret = OK
  /\ last.op = "LcdSingleBar"
  /\ last.args = <<5, 30, 255, 2, PIXEL_ON>>
  /\ last.ret = OK
  /\ \A i \in AllIndices : cacheBefore[i] = 0
  /\ \A y \in 0..30 : Bit(LcdCache[PixelIndex(6, y)], y % 8) = 1
  /\ Bit(LcdCache[PixelIndex(6, 31)], 31 % 8) = 0
  /\ Bit(LcdCache[PixelIndex(7, 30)], 30 % 8) = 0

\* The pixels of the bars of a bar chart: bar i starts at column
\* BAR_X + i * (width + EMPTY_SPACE_BARS), stands on row BAR_Y and is
\* values[i] * multiplier rows high, cut at row 0; sums and products are
\* those of the integers.
BarsPixels(values, count, width, multiplier) ==
  UNION {BarPixels(BAR_X + i * (width + EMPTY_SPACE_BARS), BAR_Y,
                   values[i + 1] * multiplier, width) : i \in 0..(count - 1)}

\* C23: whenever LcdBars returns OK, every bar i < count occupies the columns
\* BAR_X + i*(width+gap) .. BAR_X + i*(width+gap) + width - 1 with base row
\* BAR_Y and height values[i]*multiplier cut at row 0, drawn with PIXEL_ON,
\* the column and the height being the true sums and products.
C23_BarsLayout ==
  [][(last'.op = "LcdBars" /\ last'.ret = OK) =>
       PixelsDrawn(LcdCache, LcdCache',
                   BarsPixels(last'.args[1], last'.args[2],
                              last'.args[3], last'.args[4]), PIXEL_ON)]_vars

\* The first bar of a bar chart whose first column lies beyond the display,
\* or count when there is none.
FirstBarOutside(count, width) ==
  LET out == {i \in 0..(count - 1) :
                BAR_X + i * (width + EMPTY_SPACE_BARS) > LCD_X_RES - 1}
  IN IF out = {} THEN count ELSE CHOOSE i \in out : \A j \in out : i <= j

\* C24: LcdBars returns OUT_OF_BORDER exactly when the first column of some
\* bar is greater than 83; then every earlier bar is drawn completely and
\* no pixel of that bar or of a later one is drawn.
C24_BarsOutOfBorder ==
  [][(last'.op = "LcdBars") =>
       LET values == last'.args[1]
           count == last'.args[2]
           width == last'.args[3]
           multiplier == last'.args[4]
           first == FirstBarOutside(count, width)
       IN /\ (last'.ret = OUT_OF_BORDER) <=> (first < count)
          /\ (last'.ret = OUT_OF_BORDER) =>
               PixelsDrawn(LcdCache, LcdCache',
                           BarsPixels(values, first, width, multiplier),
                           PIXEL_ON)]_vars

\* The functions that draw through LcdPixel.
Rasterizers ==
  {"LcdPixel", "LcdLine", "LcdCircle", "LcdRect", "LcdSingleBar", "LcdBars"}

\* C25: every call of LcdPixel, LcdLine, LcdCircle, LcdRect, LcdSingleBar or
\* LcdBars that returns OK after changing the cache leaves UpdateLcd set, and
\* LcdUpdate clears it.
C25_ChangedFlag ==
  [][/\ (/\ last'.op \in Rasterizers
         /\ last'.ret = OK
         /\ LcdCache' # LcdCache) => UpdateLcd' = TRUE
     /\ (last'.op = "LcdUpdate") => UpdateLcd' = FALSE]_vars

(***************************************************************************)
(* The transfer to the controller                                          *)
(***************************************************************************)
\* A watermark as LcdUpdate uses it: brought into 0..503.
InCacheRange(w) == Max(0, Min(w, LCD_CACHE_SIZE - 1))

\* C26: LcdUpdate for the original controller sends, in this order, the
\* column command 0x80 | (low mod 84), the page command 0x40 | (low div 84)
\* and the cache bytes low..high in ascending order as data, and nothing
\* else, low and high being the watermarks after LcdUpdate has brought them
\* into 0..503, which is the first thing it does; afterwards
\* LoWaterMark = 503, HiWaterMark = 0, UpdateLcd is clear, and the cache and
\* the cursor are as before.
C26_UpdateSequence ==
  [][(last'.op = "LcdUpdate") =>
       LET low == InCacheRange(LoWaterMark)
           high == InCacheRange(HiWaterMark)
       IN /\ Len(bus') = 2 + (IF high >= low THEN high - low + 1 ELSE 0)
          /\ bus'[1] = Send(Or8(128, low % LCD_X_RES), LCD_CMD, -1)
          /\ bus'[2] = Send(Or8(64, low \div LCD_X_RES), LCD_CMD, -1)
          /\ \A k \in 3..Len(bus') :
               bus'[k] = Send(LcdCache[low + k - 3], LCD_DATA, low + k - 3)
          /\ LoWaterMark' = LCD_CACHE_SIZE - 1
          /\ HiWaterMark' = 0
          /\ UpdateLcd' = FALSE
          /\ LcdCache' = LcdCache
          /\ LcdCacheIdx' = LcdCacheIdx]_vars

\* A bar drawn in page 0 was transferred after the cursor had been moved:
\* two commands and the five bytes of the bar.
C26_Witness ==
  /\ last.op = "LcdUpdate"
  /\ before.op = "LcdSingleBar"
  /\ before.args = <<0, 3, 4, 5, PIXEL_ON>>
  /\ LcdCacheIdx # 0
  /\ Len(bus) = 7
  /\ bus[1].data = 128
  /\ bus[2].data = 64
  /\ \A k \in 3..7 : bus[k] = Send(15, LCD_DATA, k - 3)
  /\ LoWaterMark = LCD_CACHE_SIZE - 1
  /\ HiWaterMark = 0

\* C28: with the display RAM of the original controller as 504 bytes and a
\* write address that the column and page commands set and every data byte
\* advances by one, after LcdInit and any sequence of drawing and text calls
\* followed by LcdUpdate the display RAM equals LcdCache byte for byte.
C28_DisplayEqualsCache ==
  (last.op \in {"LcdInit", "LcdUpdate"}) => (ram.mem = LcdCache)

\* C27: LcdInit sends the six commands 0x21, 0xC8, 0x06, 0x13, 0x20, 0x0C in
\* this order before any data byte and then exactly 504 data bytes, all 0;
\* when it returns, the cache is all 0, LoWaterMark = 503, HiWaterMark = 0
\* and UpdateLcd is clear.
C27_InitSequence ==
  (last.op = "LcdInit") =>
    /\ Len(bus) >= 6
    /\ \A k \in 1..6 : bus[k].cd = LCD_CMD
    /\ <<bus[1].data, bus[2].data, bus[3].data,
         bus[4].data, bus[5].data, bus[6].data>> = <<33, 200, 6, 19, 32, 12>>
    /\ Len(DataBytes(bus)) = LCD_CACHE_SIZE
    /\ \A k \in 1..LCD_CACHE_SIZE : DataBytes(bus)[k].data = 0
    /\ \A i \in AllIndices : LcdCache[i] = 0
    /\ LoWaterMark = LCD_CACHE_SIZE - 1
    /\ HiWaterMark = 0
    /\ UpdateLcd = FALSE

\* LcdInit was called while the cache held an image that had been
\* transferred to the display.
C27_Witness ==
  /\ last.op = "LcdInit"
  /\ before.op = "LcdUpdate"
  /\ cacheBefore = Images[1]
  /\ LcdCache # cacheBefore
  /\ Len(bus) = LCD_CACHE_SIZE + 8

\* C29: LcdChr(FONT_2X, ch) returns OUT_OF_BORDER exactly when the cursor
\* minus 84 is negative, and then the cache, the cursor, LoWaterMark and
\* HiWaterMark are as they were before the call.
C29_Chr2XRejected ==
  [][(last'.op = "LcdChr" /\ last'.args[1] = FONT_2X) =>
       /\ (last'.ret = OUT_OF_BORDER) <=> (LcdCacheIdx - LCD_X_RES < 0)
       /\ (last'.ret = OUT_OF_BORDER) =>
            /\ LcdCache' = LcdCache
            /\ LcdCacheIdx' = LcdCacheIdx
            /\ LoWaterMark' = LoWaterMark
            /\ HiWaterMark' = HiWaterMark]_vars

\* The commands the other controller gets behind the data byte e: none, or
\* column 0 and the page of the next row when e went to the last column.
RowStart(e) ==
  IF e.src % LCD_X_RES = LCD_X_RES - 1
  THEN <<Send(128, LCD_CMD, -1),
         Send(Or8(64, (e.src \div LCD_X_RES) + 2), LCD_CMD, -1)>>
  ELSE <<>>

\* The data bytes d[i..j], each followed by its RowStart commands.
RECURSIVE WithRowStarts(_, _, _)
WithRowStarts(d, i, j) ==
  IF i > j THEN <<>>
  ELSE IF i = j THEN <<d[i]>> \o RowStart(d[i])
  ELSE WithRowStarts(d, i, (i + j) \div 2)
       \o WithRowStarts(d, (i + j) \div 2 + 1, j)

\* C30: for the same cache and the same watermarks, LcdUpdate built with
\* CHINA_LCD sends the same data bytes in the same order as LcdUpdate built
\* without it and leaves the same state; its commands differ: the first
\* page is (low div 84) + 1, behind every data byte of column 83 it sends
\* the column command for 0 and the page command for the next row, and
\* behind the data the commands 0x21, 0x45, 0x20.
C30_ChinaSameData ==
  [][(last'.op = "LcdUpdate") =>
       LET std == LcdUpdate(Machine)
           low == InCacheRange(LoWaterMark)
       IN /\ DataBytes(bus') = DataBytes(std.bus)
          /\ LcdCache' = std.m.cache
          /\ LoWaterMark' = std.m.lo
          /\ HiWaterMark' = std.m.hi
          /\ LcdCacheIdx' = std.m.idx
          /\ UpdateLcd' = std.m.upd
          /\ bus' = <<Send(Or8(128, low % LCD_X_RES), LCD_CMD, -1),
                      Send(Or8(64, (low \div LCD_X_RES) + 1), LCD_CMD, -1)>>
                    \o WithRowStarts(DataBytes(std.bus), 1,
                                     Len(DataBytes(std.bus)))
                    \o <<Send(33, LCD_CMD, -1), Send(69, LCD_CMD, -1),
                         Send(32, LCD_CMD, -1)>>]_vars

\* A bar that reaches from page 0 to page 5 was transferred: its range of
\* the cache holds the last column of five rows, so the address was set again
\* five times.
C30_Witness ==
  /\ last.op = "LcdUpdate"
  /\ before.op = "LcdSingleBar"
  /\ before.args = <<10, 47, 48, 3, PIXEL_ON>>
  /\ Len(DataBytes(bus)) = 5 * LCD_X_RES + 3
  /\ Len(bus) = Len(DataBytes(bus)) + 2 + 2 * 5 + 3
  /\ bus[2].data = 65
  /\ bus[Len(bus) - 1].data = 69

(***************************************************************************)
(* The last claims                                                         *)
(***************************************************************************)
\* C31: from every start state, for every font size and every string ended
\* by a terminator, of 256 characters and more too, LcdStr and LcdFStr both
\* return, and with the same result code, cache, cursor and watermarks.
C31_StrSameAsFStr ==
  /\ (run.pc \in {"LcdStr", "LcdFStr"}) ~> (run = Idle)
  /\ [][(run.pc = "LcdStr" /\ run' = Idle) =>
          LET f == FStrRun([m |-> run.m0,
                            lay |-> IF layout' = "unknown" THEN "other" ELSE layout',
                            size |-> run.size, flash |-> StepStrings[run.n],
                            dataPtr |-> 1, ret |-> OK, done |-> FALSE],
                           Len(StepStrings[run.n]))
          IN /\ f.done /\ f.ret = last'.ret /\ f.m.cache = LcdCache'
             /\ f.m.idx = LcdCacheIdx' /\ f.m.lo = LoWaterMark'
             /\ f.m.hi = HiWaterMark']_vars

\* The circle of the midpoint algorithm in unbounded integers, pass by pass:
\* s.pts collects the eight symmetric points of every pass, the decision
\* variable s.p starts at 3 - 2r and is never cut to a width.
MidpointPass(s) ==
  IF ~(s.xc <= s.yc) THEN [s EXCEPT !.done = TRUE]
  ELSE LET eight == {<<s.x + s.xc, s.y + s.yc>>, <<s.x + s.xc, s.y - s.yc>>,
                     <<s.x - s.xc, s.y + s.yc>>, <<s.x - s.xc, s.y - s.yc>>,
                     <<s.x + s.yc, s.y + s.xc>>, <<s.x + s.yc, s.y - s.xc>>,
                     <<s.x - s.yc, s.y + s.xc>>, <<s.x - s.yc, s.y - s.xc>>}
       IN IF s.p < 0
          THEN [s EXCEPT !.pts = @ \cup eight, !.xc = @ + 1,
                         !.p = @ + (s.xc * 4) + 6]
          ELSE [s EXCEPT !.pts = @ \cup eight, !.xc = @ + 1, !.yc = @ - 1,
                         !.p = @ + ((s.xc - s.yc) * 4) + 10]

RECURSIVE MidpointLoop(_, _)
MidpointLoop(s, n) ==
  IF s.done \/ n = 0 THEN s
  ELSE IF n = 1 THEN MidpointPass(s)
  ELSE MidpointLoop(MidpointLoop(s, n \div 2), n - (n \div 2))

\* The points of the midpoint circle of radius r around (x,y) that lie on
\* the display.
MidpointCircle(x, y, r) ==
  LET w == MidpointLoop([x |-> x, y |-> y, xc |-> 0, yc |-> r, p |-> 3 - (r * 2),
                         pts |-> {}, done |-> FALSE], MaxPasses)
  IN {q \in w.pts : q[1] \in 0..(LCD_X_RES - 1) /\ q[2] \in 0..(LCD_Y_RES - 1)}

\* C32: for a centre on the display and every radius 0..255,
\* LcdCircle(x, y, r, PIXEL_ON) sets exactly the points of the midpoint
\* circle of radius r, computed in unbounded integers, that lie on the
\* display: the signed chars xc, yc and p change no plotted point and no
\* point off the display is wrapped onto it.
C32_CircleIsMidpoint ==
  [][(/\ last'.op = "LcdCircle"
      /\ last'.args[4] = PIXEL_ON
      /\ InDisplay(last'.args[1], last'.args[2])) =>
       /\ Drawn(pixels') = MidpointCircle(last'.args[1], last'.args[2], last'.args[3])
       /\ PixelsDrawn(LcdCache, LcdCache',
                      MidpointCircle(last'.args[1], last'.args[2], last'.args[3]),
                      PIXEL_ON)]_vars

\* C33: after any sequence of LcdGotoXYFont, LcdChr, LcdStr and LcdFStr
\* calls from the cursor 0 of LcdInit, whatever the sizes and the result
\* codes, the cursor is a multiple of 6 between 0 and LCD_CACHE_SIZE - 6: it
\* stands on the first byte of a character cell.
C33_CursorOnCell ==
  /\ LcdCacheIdx % 6 = 0
  /\ 0 <= LcdCacheIdx
  /\ LcdCacheIdx <= LCD_CACHE_SIZE - 6

\* C35: for corners on the display with x2 > x1 and y2 > y1, LcdRect with
\* PIXEL_XOR inverts every pixel on the four edges of the rectangle once,
\* the four corners too, and changes no other pixel.
C35_RectXorEdges ==
  [][(/\ last'.op = "LcdRect"
      /\ last'.args[5] = PIXEL_XOR
      /\ InDisplay(last'.args[1], last'.args[2])
      /\ InDisplay(last'.args[3], last'.args[4])
      /\ last'.args[3] > last'.args[1]
      /\ last'.args[4] > last'.args[2]) =>
       PixelsDrawn(LcdCache, LcdCache',
                   RectEdges(last'.args[1], last'.args[2],
                             last'.args[3], last'.args[4]), PIXEL_XOR)]_vars

\* C34: LcdPixel, LcdLine, LcdCircle, LcdRect, LcdSingleBar and LcdBars
\* return, whatever their byte arguments and the mode: endpoints, widths and
\* heights that reach off the display and radii up to 255 too, the loop
\* variables being bytes and signed chars that wrap around.
C34_DrawingReturns == (run # Idle) ~> (run = Idle)

\* A circle of radius 127, whose decision variable wraps around from the
\* first pass on, has returned OK after its passes.
C34_Witness ==
  /\ run = Idle
  /\ last.op = "LcdCircle"
  /\ last.args = <<41, 23, 127, PIXEL_ON>>
  /\ last.ret = OK
  /\ UpdateLcd

====
